---------------------------- MODULE Spec2Model ----------------------------
(***************************************************************************)
(* EXORCISM - ladder test data validation (src/Exorcism.c).                *)
(*                                                                         *)
(* The model follows Exorcism(): directory discovery, a first validation   *)
(* pass (GenerateReportPage per run), the interactive cleanup              *)
(* (Extra_Omnes, one step per confirmation prompt) and a second            *)
(* validation pass.  File names are sequences of one-character strings so  *)
(* that the TString operations of the source (BeginsWith, EndsWith, Index, *)
(* Length, substring, operator<) are computed, not assumed.                *)
(***************************************************************************)
EXTENDS Integers, Sequences, FiniteSets, TLC

(***************************************************************************)
(* TString operations                                                      *)
(***************************************************************************)
kNPOS == -1

\* The characters that occur in the modelled names, in ASCII order.
AsciiOrder ==
    << "-", ".", "0", "1", "2", "3", "4", "5", "6", "7", "8", "9",
       "A", "B", "C", "D", "E", "F", "G", "H", "I", "J", "K", "L", "M",
       "N", "O", "P", "Q", "R", "S", "T", "U", "V", "W", "X", "Y", "Z",
       "_",
       "a", "b", "c", "d", "e", "f", "g", "h", "i", "j", "k", "l", "m",
       "n", "o", "p", "q", "r", "s", "t", "u", "v", "w", "x", "y", "z" >>

Ord(c) == CHOOSE i \in 1..Len(AsciiOrder) : AsciiOrder[i] = c

Digits == <<"0", "1", "2", "3", "4", "5", "6", "7", "8", "9">>

isdigit(c) == \E i \in 1..10 : Digits[i] = c

DigitVal(c) == (CHOOSE i \in 1..10 : Digits[i] = c) - 1

\* The digits of LONG_MAX, 2^63 - 1.
LongMaxDigits ==
    <<"9", "2", "2", "3", "3", "7", "2", "0", "3", "6", "8", "5", "4", "7", "7", "5", "8", "0", "7">>

\* A string of digits without its leading zeros.
RECURSIVE StripZeros(_)
StripZeros(s) == IF Len(s) > 0 /\ s[1] = "0" THEN StripZeros(Tail(s)) ELSE s

\* The number written by the digits s is greater than the one written by max.
Exceeds(s, max) ==
    LET t == StripZeros(s) IN
    \/ Len(t) > Len(max)
    \/ Len(t) = Len(max) /\ \E i \in 1..Len(t) :
          /\ DigitVal(t[i]) > DigitVal(max[i])
          /\ \A j \in 1..(i - 1) : t[j] = max[j]

\* The low 32 bits of the number written by the digits s, as the two
\* 16-bit halves <<high, low>>.
RECURSIVE Low32(_)
Low32(s) ==
    IF Len(s) = 0 THEN <<0, 0>>
    ELSE LET h == Low32(SubSeq(s, 1, Len(s) - 1))
             d == DigitVal(s[Len(s)])
         IN  << (10 * h[1] + (10 * h[2] + d) \div 2^16) % 2^16, (10 * h[2] + d) % 2^16 >>

\* The conversion of a long to int: the low 32 bits, in two's complement.
ToInt(h) == IF h[1] >= 2^15 THEN (h[1] - 2^16) * 2^16 + h[2] ELSE h[1] * 2^16 + h[2]

\* atoi on a string of digits (the callers have checked isdigit on every
\* character); an empty string gives 0.  atoi is (int) strtol(s, NULL, 10):
\* a number beyond INT_MAX, for which the C standard leaves atoi
\* undefined, gives the low 32 bits of the long, and strtol gives LONG_MAX
\* (hence -1) beyond LONG_MAX.
atoi(s) == IF Exceeds(s, LongMaxDigits) THEN -1 ELSE ToInt(Low32(s))

BeginsWith(s, p) == Len(s) >= Len(p) /\ SubSeq(s, 1, Len(p)) = p

EndsWith(s, p) ==
    Len(s) >= Len(p) /\ SubSeq(s, Len(s) - Len(p) + 1, Len(s)) = p

\* TString::Index(pat, start): 0-based position of the first occurrence of
\* pat at or after start, kNPOS when there is none.
Index(s, pat, start) ==
    LET hits == { i \in start..(Len(s) - Len(pat)) :
                     i >= 0 /\ SubSeq(s, i + 1, i + Len(pat)) = pat }
    IN  IF hits = {} THEN kNPOS
        ELSE CHOOSE i \in hits : \A j \in hits : i <= j

Contains(s, pat) == Index(s, pat, 0) # kNPOS

\* TString::operator()(start, len): the substring, clipped to the string.
Sub(s, start, len) ==
    IF start < 0 \/ start >= Len(s) THEN << >>
    ELSE SubSeq(s, start + 1, IF start + len > Len(s) THEN Len(s) ELSE start + len)

\* operator< on TString / std::string: lexicographic on character codes.
RECURSIVE Less(_, _)
Less(a, b) ==
    IF Len(b) = 0 THEN FALSE
    ELSE IF Len(a) = 0 THEN TRUE
    ELSE IF a[1] # b[1] THEN Ord(a[1]) < Ord(b[1])
    ELSE Less(Tail(a), Tail(b))

(***************************************************************************)
(* Status levels and flag bitmasks                                         *)
(***************************************************************************)
STATUS_PASSED == 0
STATUS_PASSED_WITH_ISSUES == 1
STATUS_FAILED == 2

FLAG_DIR_MISSING == 1
FLAG_LOG_MISSING == 2
FLAG_DATA_MISSING == 4
FLAG_NO_FEB_FILE == 8
FLAG_FILE_OPEN == 16
FLAG_DATA_EMPTY == 32
FLAG_DATA_INVALID == 64
FLAG_UNEXPECTED_FILES == 128

FLAG_CONN_FOLDER_MISSING == 1
FLAG_DIR_ACCESS == 2
FLAG_ELECTRON_COUNT == 4
FLAG_HOLE_COUNT == 8
FLAG_FILE_OPEN_CONN == 16
FLAG_UNEXPECTED_FILES_CONN == 32

FLAG_TRIM_FOLDER_MISSING == 1
FLAG_DIR_ACCESS_TRIM == 2
FLAG_ELECTRON_COUNT_TRIM == 4
FLAG_HOLE_COUNT_TRIM == 8
FLAG_FILE_OPEN_TRIM == 16
FLAG_UNEXPECTED_FILES_TRIM == 32

FLAG_PSCAN_FOLDER_MISSING == 1
FLAG_DIR_ACCESS_PSCAN == 2
FLAG_ELECTRON_TXT == 4
FLAG_HOLE_TXT == 8
FLAG_ELECTRON_ROOT == 16
FLAG_HOLE_ROOT == 32
FLAG_FILE_OPEN_PSCAN == 64
FLAG_UNEXPECTED_FILES_PSCAN == 128
FLAG_MODULE_ROOT == 256
FLAG_MODULE_TXT == 512
FLAG_MODULE_PDF == 1024

\* The value of a set with one element.  Sole({ e : x \in {v} }) is e with
\* x standing for the value of v, computed once.
Sole(S) == CHOOSE x \in S : TRUE

\* flags & f, for a single-bit f
HasFlag(flags, f) == (flags \div f) % 2 = 1

\* flags |= f, for a single-bit f
OrFlag(flags, f) == IF HasFlag(flags, f) THEN flags ELSE flags + f

\* flags & (f1 | f2 | ...) as a truth value; mask is the set of the bits
AndMask(flags, mask) == \E f \in mask : HasFlag(flags, f)


(***************************************************************************)
(* Bounds of the model                                                     *)
(***************************************************************************)
\* Number of departures (a file added, removed or replaced, a folder
\* missing, a directory unreadable or read-only) of the run tree from a
\* complete, valid tree.
MaxAnomalies == 1

\* Number of flag bits set over the four outcomes in the verdict table.
MaxFlagBits == 3

\* Number of data and tester files of the run directories whose every
\* listing order is taken.
MaxLogFiles == 4

(***************************************************************************)
(* The run tree.  A file is <<run, area, kind, n, variant>>: area is "log" *)
(* (the run directory itself), "trim", "pscan" or "conn"; variant is       *)
(* 0 (readable, non-empty, valid content), 1 (non-empty, invalid content), *)
(* 2 (size 0) or 3 (cannot be opened).                                     *)
(***************************************************************************)
Runs == {1, 2}

\* The names of the runs: 15 characters (the length the data-file name
\* test of the source is written for) and 5 characters.
RunName(r) ==
    IF r = 1 THEN <<"S", "T", "S", "_", "L", "A", "D", "D", "E", "R", "_", "0", "0", "0", "1">>
    ELSE <<"L", "A", "D", "_", "2">>

\* Embedded timestamps YYMMDD_HHMM.
Stamp(n) ==
    CASE n = 1 -> <<"2", "4", "0", "1", "0", "1", "_", "0", "9", "0", "0">>
      [] n = 2 -> <<"2", "4", "0", "1", "0", "1", "_", "0", "9", "0", "5">>
      [] OTHER -> <<"2", "4", "0", "1", "0", "1", "_", "0", "9", "3", "0">>

\* Tester n: the tag after tester_febs_ and the timestamp after _arr_.
\* Tester 2 sorts before tester 1 by name and after it by timestamp;
\* tester 3 has the timestamp of tester 1.
TesterTag(n) == CASE n = 1 -> "B" [] n = 2 -> "A" [] OTHER -> "C"
TesterStamp(n) == CASE n = 1 -> Stamp(1) [] n = 2 -> Stamp(2) [] OTHER -> Stamp(1)

SubdirName(n) ==
    CASE n = 1 -> <<"t", "r", "i", "m", "_", "f", "i", "l", "e", "s">>
      [] n = 2 -> <<"p", "s", "c", "a", "n", "_", "f", "i", "l", "e", "s">>
      [] OTHER -> <<"c", "o", "n", "n", "_", "c", "h", "e", "c", "k", "_", "f", "i", "l", "e", "s">>

AreaOfSubdir(n) == CASE n = 1 -> "trim" [] n = 2 -> "pscan" [] OTHER -> "conn"

\* gState.currentLadder: the base name of the working directory.
currentLadder == <<"L", "A", "D">>

\* __DATE__ and __TIME__ of the translation unit.
BuildDate == <<"O", "c", "t", " ", "3", "0", " ", "2", "0", "2", "6">>
BuildTime == <<"2", "1", ":", "0", "8", ":", "2", "0">>

\* TString::ReplaceAll(a, b) for one-character a and b.
ReplaceAll(s, a, b) == [i \in 1..Len(s) |-> IF s[i] = a THEN b ELSE s[i]]

\* The timestamp in the names of the report files: "_<date>_<time>" with
\* the spaces turned into "_" and the colons into "-".
timestamp == ReplaceAll(ReplaceAll(<<"_">> \o BuildDate \o <<"_">> \o BuildTime, " ", "_"), ":", "-")

\* The extension of report file n: text, ROOT, PDF.
ReportExt(n) ==
    CASE n = 1 -> <<".", "t", "x", "t">>
      [] n = 2 -> <<".", "r", "o", "o", "t">>
      [] OTHER -> <<".", "p", "d", "f">>

\* ExorcismReport_<ladder><timestamp>_before.* and ..._after.*
ReportName(when, n) ==
    <<"E", "x", "o", "r", "c", "i", "s", "m", "R", "e", "p", "o", "r", "t", "_">>
    \o currentLadder \o timestamp \o when \o ReportExt(n)

Name(f) ==
    LET r == f[1]  k == f[3]  n == f[4] IN
    CASE k = "logfile"     -> RunName(r) \o <<"_", "l", "o", "g", ".", "l", "o", "g">>
      [] k = "legacy"      -> RunName(r) \o <<"_", "d", "a", "t", "a", ".", "d", "a", "t">>
      [] k = "data"        -> RunName(r) \o <<"_">> \o Stamp(n) \o <<"_", "d", "a", "t", "a", ".", "d", "a", "t">>
      [] k = "tester"      -> <<"t", "e", "s", "t", "e", "r", "_", "f", "e", "b", "s", "_">> \o <<TesterTag(n)>> \o <<"_", "a", "r", "r", "_">> \o TesterStamp(n)
      [] k = "logtester"   -> <<"t", "e", "s", "t", "e", "r", "_", "f", "e", "b", "s", "_", "D", "_", "a", "r", "r", "_">> \o TesterStamp(n) \o <<".", "l", "o", "g">>
      [] k = "shorttester" -> <<"t", "e", "s", "t", "e", "r", "_", "f", "e", "b", "s", "_", "0", "_", "a", "r", "r", "_", "2", "4", "0", "1">>
      [] k = "other"       -> <<"n", "o", "t", "e", "s", ".", "t", "m", "p">>
      [] k = "dir"         -> SubdirName(n)
      [] k = "rundir"      -> RunName(r)
      [] k = "sysdir"      -> <<"e", "t", "c">>
      [] k = "elect"       -> <<"f", "_", "H", "W", "_">> \o <<Digits[n + 1]>> \o <<"_", "S", "E", "T", "_", "1", "_", "e", "l", "e", "c", "t", ".", "t", "x", "t">>
      [] k = "holes"       -> <<"f", "_", "H", "W", "_">> \o <<Digits[n + 1]>> \o <<"_", "S", "E", "T", "_", "1", "_", "h", "o", "l", "e", "s", ".", "t", "x", "t">>
      [] k = "elect2"      -> <<"g", "_", "H", "W", "_">> \o <<Digits[n + 1]>> \o <<"_", "S", "E", "T", "_", "1", "_", "e", "l", "e", "c", "t", ".", "t", "x", "t">>
      [] k = "holes2"      -> <<"g", "_", "H", "W", "_">> \o <<Digits[n + 1]>> \o <<"_", "S", "E", "T", "_", "1", "_", "h", "o", "l", "e", "s", ".", "t", "x", "t">>
      [] k = "elect_big"   -> <<"f", "_", "H", "W", "_", "4", "2", "9", "4", "9", "6", "7", "2", "9", "6", "_", "S", "E", "T", "_", "1", "_", "e", "l", "e", "c", "t", ".", "t", "x", "t">>
      [] k = "elect_nohw"  -> <<"f", "_", "S", "E", "T", "_", "1", "_", "e", "l", "e", "c", "t", ".", "t", "x", "t">>
      [] k = "elect_nan"   -> <<"f", "_", "H", "W", "_", "x", "_", "S", "E", "T", "_", "1", "_", "e", "l", "e", "c", "t", ".", "t", "x", "t">>
      [] k = "conn_elect"  -> <<"c", "_">> \o <<Digits[n + 1]>> \o <<"_", "e", "l", "e", "c", "t", ".", "t", "x", "t">>
      [] k = "conn_holes"  -> <<"c", "_">> \o <<Digits[n + 1]>> \o <<"_", "h", "o", "l", "e", "s", ".", "t", "x", "t">>
      [] k = "elect_txt"   -> <<"p", "_">> \o <<Digits[n + 1]>> \o <<"_", "e", "l", "e", "c", "t", ".", "t", "x", "t">>
      [] k = "holes_txt"   -> <<"p", "_">> \o <<Digits[n + 1]>> \o <<"_", "h", "o", "l", "e", "s", ".", "t", "x", "t">>
      [] k = "elect_root"  -> <<"p", "_">> \o <<Digits[n + 1]>> \o <<"_", "e", "l", "e", "c", "t", ".", "r", "o", "o", "t">>
      [] k = "holes_root"  -> <<"p", "_">> \o <<Digits[n + 1]>> \o <<"_", "h", "o", "l", "e", "s", ".", "r", "o", "o", "t">>
      [] k = "module_root" -> <<"m", "o", "d", "u", "l", "e", "_", "t", "e", "s", "t", "_">> \o RunName(r) \o <<".", "r", "o", "o", "t">>
      [] k = "module_txt"  -> <<"m", "o", "d", "u", "l", "e", "_", "t", "e", "s", "t", "_">> \o RunName(r) \o <<".", "t", "x", "t">>
      [] k = "report_before" -> ReportName(<<"_", "b", "e", "f", "o", "r", "e">>, n)
      [] k = "report_after"  -> ReportName(<<"_", "a", "f", "t", "e", "r">>, n)
      [] OTHER             -> <<"m", "o", "d", "u", "l", "e", "_", "t", "e", "s", "t", "_">> \o RunName(r) \o <<".", "p", "d", "f">>

IsDirectory(f) == f[3] \in {"dir", "rundir", "sysdir"}

\* std::ifstream::is_open / TFile::Open succeeds
CanOpen(f) == f[5] # 3

\* The marker CheckDataFileContent looks for, and lines a data file may hold.
Marker == <<"L", "V", "_", "A", "F", "T", "_", "C", "O", "N", "F", "I", "G", "_", "P">>

TextLine == <<"x">>
BlankLine == <<" ", "\t">>
MarkerLine == <<" ">> \o Marker \o <<"=", "1">>

\* The lines of a file as std::getline returns them.
Lines(f) ==
    CASE f[5] = 0 -> <<TextLine, MarkerLine, BlankLine, TextLine, TextLine>>
      [] f[5] = 1 -> <<MarkerLine, TextLine, BlankLine>>
      [] OTHER    -> << >>

\* tellg() at the end of the file
FileSize(f) == Len(Lines(f))


(***************************************************************************)
(* The entries a run tree may hold, per directory ("." and ".." are left   *)
(* out, every checker skips them).  TSystemDirectory::GetListOfFiles does  *)
(* not sort: the order of a listing is given by the variable order.        *)
(***************************************************************************)
HW == <<0, 1, 2, 3, 4, 5, 6, 7>>

\* <<r, a, k, HW[i], 0>> for i = 1..8
HwFiles(r, a, k) == [i \in 1..8 |-> <<r, a, k, HW[i], 0>>]

AreaFiles(r, a) ==
    CASE a = "log" ->
           << <<r, "log", "legacy", 0, 0>>, <<r, "log", "legacy", 0, 1>>,
              <<r, "log", "legacy", 0, 2>>,
              <<r, "log", "data", 1, 0>>, <<r, "log", "data", 1, 1>>,
              <<r, "log", "data", 1, 2>>, <<r, "log", "data", 1, 3>>,
              <<r, "log", "data", 2, 0>>, <<r, "log", "data", 3, 0>>,
              <<r, "log", "tester", 1, 0>>, <<r, "log", "tester", 2, 0>>,
              <<r, "log", "tester", 3, 0>>, <<r, "log", "logtester", 1, 0>>,
              <<r, "log", "shorttester", 0, 0>>,
              <<r, "log", "logfile", 0, 0>>, <<r, "log", "logfile", 0, 3>>,
              <<r, "log", "other", 0, 0>>,
              <<r, "log", "dir", 1, 0>>, <<r, "log", "dir", 2, 0>>,
              <<r, "log", "dir", 3, 0>> >>
      [] a = "trim" ->
           HwFiles(r, "trim", "elect") \o HwFiles(r, "trim", "holes") \o
           << <<r, "trim", "elect2", 3, 0>>, <<r, "trim", "elect", 8, 0>>,
              <<r, "trim", "elect_nohw", 0, 0>>, <<r, "trim", "elect_nan", 0, 0>>,
              <<r, "trim", "elect_big", 0, 0>>,
              <<r, "trim", "holes2", 5, 0>>, <<r, "trim", "holes", 9, 0>>,
              <<r, "trim", "other", 0, 0>> >>
      [] a = "pscan" ->
           HwFiles(r, "pscan", "elect_txt") \o HwFiles(r, "pscan", "holes_txt") \o
           HwFiles(r, "pscan", "elect_root") \o HwFiles(r, "pscan", "holes_root") \o
           << <<r, "pscan", "elect_txt", 0, 2>>, <<r, "pscan", "holes_root", 0, 3>>,
              <<r, "pscan", "module_root", 0, 0>>, <<r, "pscan", "module_txt", 0, 0>>,
              <<r, "pscan", "module_pdf", 0, 0>>,
              <<r, "pscan", "holes_txt", 8, 0>>,
              <<r, "pscan", "logfile", 0, 0>>, <<r, "pscan", "other", 0, 0>> >>
      [] a = "cwd" ->
           << <<0, "cwd", "other", 0, 0>>, <<1, "cwd", "rundir", 0, 0>>,
              <<0, "cwd", "sysdir", 0, 0>>, <<2, "cwd", "rundir", 0, 0>>,
              <<0, "cwd", "report_before", 1, 0>>, <<0, "cwd", "report_before", 2, 0>>,
              <<0, "cwd", "report_before", 3, 0>>,
              <<0, "cwd", "report_after", 1, 0>>, <<0, "cwd", "report_after", 2, 0>>,
              <<0, "cwd", "report_after", 3, 0>> >>
      [] OTHER ->
           HwFiles(r, "conn", "conn_elect") \o HwFiles(r, "conn", "conn_holes") \o
           << <<r, "conn", "conn_elect", 0, 3>>, <<r, "conn", "conn_elect", 8, 0>>,
              <<r, "conn", "other", 0, 0>> >>

Areas == {"log", "trim", "pscan", "conn"}

Range(s) == { s[i] : i \in 1..Len(s) }

Universe == UNION { Range(AreaFiles(r, a)) : r \in Runs, a \in Areas }

\* The files of a sub-area of a complete, valid run.
BaseArea(r, a) ==
    CASE a = "trim"  -> Range(HwFiles(r, "trim", "elect")) \cup Range(HwFiles(r, "trim", "holes"))
      [] a = "pscan" -> Range(HwFiles(r, "pscan", "elect_txt")) \cup Range(HwFiles(r, "pscan", "holes_txt"))
                        \cup Range(HwFiles(r, "pscan", "elect_root")) \cup Range(HwFiles(r, "pscan", "holes_root"))
                        \cup { <<r, "pscan", "module_root", 0, 0>>, <<r, "pscan", "module_txt", 0, 0>>,
                               <<r, "pscan", "module_pdf", 0, 0>> }
      [] a = "conn"  -> Range(HwFiles(r, "conn", "conn_elect")) \cup Range(HwFiles(r, "conn", "conn_holes"))
      [] OTHER       -> { <<r, "log", "logfile", 0, 0>>, <<r, "log", "tester", 1, 0>>,
                          <<r, "log", "dir", 1, 0>>, <<r, "log", "dir", 2, 0>>, <<r, "log", "dir", 3, 0>>,
                          IF r = 1 THEN <<r, "log", "data", 1, 0>> ELSE <<r, "log", "legacy", 0, 0>> }

\* A complete, valid tree: every run passes.
BaseTree ==
    UNION { BaseArea(r, a) : r \in Runs, a \in Areas }
    \cup { <<r, "cwd", "rundir", 0, 0>> : r \in Runs }
    \cup { <<0, "cwd", "sysdir", 0, 0>>, <<0, "cwd", "other", 0, 0>> }

\* A departure from the complete tree: files removed, files added,
\* directories made unreadable, directories made read-only.
Anomaly(rem, add, nr, nw) ==
    [rem |-> rem, add |-> add, noread |-> nr, nowrite |-> nw]
\* Run r is absent from the working directory.
RemoveRun(r) ==
    Anomaly({<<r, "cwd", "rundir", 0, 0>>} \cup UNION { BaseArea(r, a) : a \in Areas }, {}, {}, {})
AddFile(f) == Anomaly({}, {f}, {}, {})
AddFiles(f, g) == Anomaly({}, {f, g}, {}, {})
RemoveFile(f) == Anomaly({f}, {}, {}, {})
ReplaceFile(f, g) == Anomaly({f}, {g}, {}, {})
RemoveFolder(r, n) == Anomaly({<<r, "log", "dir", n, 0>>} \cup BaseArea(r, AreaOfSubdir(n)), {}, {}, {})

Anomalies ==
    { AddFile(<<1, "log", "legacy", 0, 0>>),
      AddFile(<<1, "log", "legacy", 0, 1>>),
      AddFile(<<1, "log", "legacy", 0, 2>>),
      AddFile(<<1, "log", "data", 3, 0>>),
      AddFile(<<1, "log", "tester", 2, 0>>),
      AddFile(<<1, "log", "tester", 3, 0>>),
      AddFile(<<1, "log", "shorttester", 0, 0>>),
      AddFile(<<1, "log", "other", 0, 0>>),
      AddFiles(<<1, "log", "legacy", 0, 0>>, <<1, "log", "tester", 2, 0>>),
      AddFiles(<<1, "log", "data", 3, 0>>, <<1, "log", "tester", 2, 0>>),
      AddFiles(<<1, "log", "data", 2, 0>>, <<1, "log", "tester", 2, 0>>),
      AddFiles(<<1, "log", "legacy", 0, 1>>, <<1, "log", "shorttester", 0, 0>>),
      AddFiles(<<1, "log", "legacy", 0, 1>>, <<1, "log", "tester", 2, 0>>),
      Anomaly({}, {<<1, "log", "legacy", 0, 1>>, <<1, "log", "data", 2, 0>>,
                   <<1, "log", "tester", 2, 0>>}, {}, {}),
      ReplaceFile(<<1, "log", "data", 1, 0>>, <<1, "log", "data", 1, 1>>),
      ReplaceFile(<<1, "log", "data", 1, 0>>, <<1, "log", "data", 1, 2>>),
      ReplaceFile(<<1, "log", "data", 1, 0>>, <<1, "log", "data", 1, 3>>),
      ReplaceFile(<<1, "log", "logfile", 0, 0>>, <<1, "log", "logfile", 0, 3>>),
      Anomaly({<<1, "log", "data", 1, 0>>, <<1, "log", "tester", 1, 0>>},
              {<<1, "log", "data", 1, 1>>, <<1, "log", "logtester", 1, 0>>}, {}, {}),
      RemoveFile(<<1, "log", "data", 1, 0>>),
      RemoveFile(<<1, "log", "tester", 1, 0>>),
      RemoveFile(<<1, "log", "logfile", 0, 0>>),
      AddFile(<<1, "trim", "other", 0, 0>>),
      AddFile(<<1, "trim", "elect2", 3, 0>>),
      AddFile(<<1, "trim", "elect", 8, 0>>),
      AddFile(<<1, "trim", "elect_nohw", 0, 0>>),
      AddFile(<<1, "trim", "elect_nan", 0, 0>>),
      ReplaceFile(<<1, "trim", "elect", 0, 0>>, <<1, "trim", "elect_big", 0, 0>>),
      AddFile(<<1, "trim", "holes2", 5, 0>>),
      AddFile(<<1, "trim", "holes", 9, 0>>),
      RemoveFile(<<1, "trim", "elect", 7, 0>>),
      RemoveFile(<<1, "trim", "holes", 0, 0>>),
      RemoveFolder(1, 1),
      AddFile(<<1, "pscan", "other", 0, 0>>),
      AddFile(<<1, "pscan", "logfile", 0, 0>>),
      ReplaceFile(<<1, "pscan", "elect_txt", 0, 0>>, <<1, "pscan", "elect_txt", 0, 2>>),
      ReplaceFile(<<1, "pscan", "holes_root", 0, 0>>, <<1, "pscan", "holes_root", 0, 3>>),
      RemoveFile(<<1, "pscan", "module_pdf", 0, 0>>),
      RemoveFile(<<1, "pscan", "module_root", 0, 0>>),
      RemoveFile(<<1, "pscan", "module_txt", 0, 0>>),
      RemoveFile(<<1, "pscan", "elect_root", 5, 0>>),
      AddFile(<<1, "pscan", "holes_txt", 8, 0>>),
      RemoveFolder(1, 2),
      AddFile(<<1, "conn", "other", 0, 0>>),
      ReplaceFile(<<1, "conn", "conn_elect", 0, 0>>, <<1, "conn", "conn_elect", 0, 3>>),
      RemoveFile(<<1, "conn", "conn_holes", 2, 0>>),
      AddFile(<<1, "conn", "conn_elect", 8, 0>>),
      RemoveFolder(1, 3),
      Anomaly({}, {}, {<<1, "log">>}, {}),
      Anomaly({}, {}, {<<1, "trim">>}, {}),
      Anomaly({}, {}, {<<1, "pscan">>}, {}),
      Anomaly({}, {}, {<<1, "conn">>}, {}),
      Anomaly({}, {}, {}, {<<1, "log">>}),
      Anomaly({}, {<<1, "log", "other", 0, 0>>}, {}, {<<1, "log">>}),
      AddFile(<<2, "log", "data", 1, 0>>),
      AddFile(<<2, "log", "tester", 2, 0>>),
      Anomaly({<<2, "log", "legacy", 0, 0>>},
              {<<2, "log", "legacy", 0, 1>>, <<2, "log", "tester", 2, 0>>}, {}, {}),
      AddFile(<<2, "log", "legacy", 0, 1>>),
      RemoveFolder(2, 3),
      RemoveRun(1),
      RemoveRun(2) }

\* The tree that a set of anomalies gives.
TreeOf(as) ==
    (BaseTree \ UNION { x.rem : x \in as }) \cup UNION { x.add : x \in as }

\* Anomalies that can hold together: they touch different files, no
\* directory ends with two entries of one name, and no file lies in a
\* folder that is missing.
Compatible(as) ==
    LET tree == TreeOf(as)
        added == UNION { x.add : x \in as }
    IN
    /\ \A x, y \in as : x # y => x.rem \cap y.rem = {} /\ x.add \cap y.add = {}
    /\ \A f \in added : \A g \in tree :
          (f # g /\ f[1] = g[1] /\ f[2] = g[2]) => Name(f) # Name(g)
    /\ \A f \in added : f[2] \in {"trim", "pscan", "conn"} =>
          \E n \in 1..3 : AreaOfSubdir(n) = f[2] /\ <<f[1], "log", "dir", n, 0>> \in tree
    /\ \A f \in added : <<f[1], "cwd", "rundir", 0, 0>> \in tree

(***************************************************************************)
(* Directory access                                                        *)
(***************************************************************************)
Reverse(s) == [i \in 1..Len(s) |-> s[Len(s) + 1 - i]]

\* The sequence s read as a ring, from its entry f onwards.
StartingAt(s, f) ==
    LET k == CHOOSE i \in 1..Len(s) : s[i] = f
    IN  SubSeq(s, k, Len(s)) \o SubSeq(s, 1, k - 1)

\* The directories: the working directory and, for each run, the run
\* directory ("log") and its three sub-directories.
DirKeys == {<<0, "cwd">>} \cup (Runs \X Areas)

\* One way of listing the entries s of a directory: as written, from the
\* last entry to the first, from the entry f round to the entry before
\* it, or that last listing from its end.
Turned(s, how, f) ==
    CASE how = "forward"  -> s
      [] how = "backward" -> Reverse(s)
      [] how = "from"     -> StartingAt(s, f)
      [] OTHER            -> Reverse(StartingAt(s, f))

\* The ways of listing a run directory: forward, backward, and from the
\* data file of each timestamp round the ring, in both directions.  Of
\* any three data files of a run directory (the legacy file among them)
\* these listings give every relative order.
LogWays ==
    { <<"forward", 0>>, <<"backward", 0>> } \cup ({"from", "from_back"} \X {1, 2, 3})

\* The order in which the operating system returns the entries of each
\* directory is not fixed by the program: an order gives, for each
\* directory, a sequence of all the entries it may hold.  The working
\* directory, the run directories and the sub-directories are each
\* listed in a way of their own.
OrderOf(cwd, log, sub) ==
    [d \in DirKeys |->
        CASE d[2] = "cwd" -> Turned(AreaFiles(0, "cwd"), cwd, <<0, "cwd", "other", 0, 0>>)
          [] d[2] = "log" -> Turned(AreaFiles(d[1], "log"), log[1], <<d[1], "log", "data", log[2], 0>>)
          [] OTHER        -> Turned(AreaFiles(d[1], d[2]), sub, <<d[1], d[2], "other", 0, 0>>)]

Forward == OrderOf("forward", <<"forward", 0>>, "forward")

Orders ==
    { OrderOf(cwd, log, sub) :
        cwd \in {"forward", "backward"},
        log \in LogWays,
        sub \in {"forward", "backward"} }

\* The permutations of a finite set.
RECURSIVE Perms(_)
Perms(S) ==
    IF S = {} THEN { << >> }
    ELSE UNION { { <<x>> \o p : p \in Perms(S \ {x}) } : x \in S }

\* GetListOfFiles of directory a of run r: the entries present, in the
\* order the directory returns them.
Listing(r, a, tree, order) == SelectSeq(order[<<r, a>>], LAMBDA f : f \in tree)

\* !gSystem->AccessPathName(path, kFileExists) for the file named nm in
\* directory a of run r
Exists(r, a, nm, tree) == \E f \in tree : f[1] = r /\ f[2] = a /\ Name(f) = nm

\* The entry named nm in directory a of run r (when Exists).
Entry(r, a, nm, tree) == CHOOSE f \in tree : f[1] = r /\ f[2] = a /\ Name(f) = nm

SubdirExists(r, n, tree) == <<r, "log", "dir", n, 0>> \in tree

NoFile == <<0, "none", "none", 0, 0>>

(***************************************************************************)
(* ValidationResult                                                        *)
(***************************************************************************)
ValidationResult ==
    [ flags |-> 0,
      openErrorFiles |-> << >>, unexpectedFiles |-> << >>, emptyFiles |-> << >>,
      invalidFiles |-> << >>, moduleErrorFiles |-> << >>,
      dataFileCount |-> 0, nonEmptyDataCount |-> 0, validDataCount |-> 0,
      foundFebFile |-> FALSE, logExists |-> FALSE,
      electronCount |-> 0, holeCount |-> 0,
      electronTxtCount |-> 0, holeTxtCount |-> 0,
      electronRootCount |-> 0, holeRootCount |-> 0 ]

\* result.<list>.push_back(file); result.flags |= flag
Report(res, list, f, flag) ==
    [res EXCEPT ![list] = Append(@, f), !.flags = OrFlag(@, flag)]

(***************************************************************************)
(* CheckDataFileContent                                                    *)
(***************************************************************************)
MarkerLinesNeeded == 2

npos == -1

\* std::string::find and std::string::find_first_not_of
find(line, pat) ==
    Sole({ IF hits = {} THEN npos ELSE CHOOSE i \in hits : \A j \in hits : i <= j :
           hits \in { { i \in 0..(Len(line) - Len(pat)) : SubSeq(line, i + 1, i + Len(pat)) = pat } } })

find_first_not_of(line, chars) ==
    Sole({ IF hits = {} THEN npos ELSE CHOOSE i \in hits : \A j \in hits : i <= j :
           hits \in { { i \in 0..(Len(line) - 1) : line[i + 1] \notin chars } } })

\* A variant of the inner loop that counts every line after the marker
\* line, blank or not.
RECURSIVE CountAfterMarkerAnyLine(_, _)
CountAfterMarkerAnyLine(lines, validLinesAfter) ==
    IF Len(lines) = 0 THEN FALSE
    ELSE IF validLinesAfter + 1 >= MarkerLinesNeeded THEN TRUE
    ELSE CountAfterMarkerAnyLine(Tail(lines), validLinesAfter + 1)

\* The inner loop: the lines after the marker line; a line of spaces and
\* tabs is skipped, the second other line makes the content valid.
RECURSIVE CountAfterMarker(_, _)
CountAfterMarker(lines, validLinesAfter) ==
    IF Len(lines) = 0 THEN FALSE
    ELSE IF find_first_not_of(Head(lines), {" ", "\t"}) = npos
    THEN CountAfterMarker(Tail(lines), validLinesAfter)
    ELSE IF validLinesAfter + 1 >= MarkerLinesNeeded THEN TRUE
    ELSE CountAfterMarker(Tail(lines), validLinesAfter + 1)

\* The outer loop: the lines up to the first one that holds the marker.
RECURSIVE ScanForMarker(_)
ScanForMarker(lines) ==
    IF Len(lines) = 0 THEN FALSE
    ELSE IF find(Head(lines), Marker) # npos THEN CountAfterMarker(Tail(lines), 0)
    ELSE ScanForMarker(Tail(lines))

\* CheckDataFileContent of a file that opens (isOpen) and holds lines.
CheckContent(isOpen, lines) == IF ~isOpen THEN FALSE ELSE ScanForMarker(lines)

CheckDataFileContent(f) == CheckContent(CanOpen(f), Lines(f))

(***************************************************************************)
(* CheckLogFiles                                                           *)
(***************************************************************************)
\* 15 (folder) + _ + 6 (YYMMDD) + _ + 4 (HHMM) + _data.dat
StdDataNameLength == 36
PatternStart == 16
PatternLength == 11
ArrLength == 5

LogFileName(r) == RunName(r) \o <<"_", "l", "o", "g", ".", "l", "o", "g">>
LegacyDataName(r) == RunName(r) \o <<"_", "d", "a", "t", "a", ".", "d", "a", "t">>

FileInfo(f, pattern, special) ==
    [file |-> f, dateTimePattern |-> pattern, isSpecialCase |-> special]

\* The content validation of one well-named data file.
DataContentStep(res, f) ==
    IF ~CanOpen(f) THEN Report(res, "openErrorFiles", f, FLAG_FILE_OPEN)
    ELSE IF FileSize(f) > 0 THEN
        IF CheckDataFileContent(f)
        THEN [res EXCEPT !.nonEmptyDataCount = @ + 1, !.validDataCount = @ + 1]
        ELSE Report([res EXCEPT !.nonEmptyDataCount = @ + 1], "invalidFiles", f, FLAG_DATA_INVALID)
    ELSE Report(res, "emptyFiles", f, FLAG_DATA_EMPTY)

\* One iteration of the file processing loop; acc holds the result and the
\* dataFiles and testerFiles vectors.
LogFileStep(r, acc, f) ==
    Sole({
      IF IsDirectory(f) THEN acc
      ELSE IF fileName = LogFileName(r) THEN acc
      ELSE IF BeginsWith(fileName, RunName(r)) /\ EndsWith(fileName, <<"_", "d", "a", "t", "a", ".", "d", "a", "t">>) THEN
          IF Len(fileName) = StdDataNameLength THEN
              [acc EXCEPT !.result = DataContentStep([@ EXCEPT !.dataFileCount = @ + 1], f),
                          !.dataFiles = Append(@, FileInfo(f, Sub(fileName, PatternStart, PatternLength), FALSE))]
          ELSE IF fileName = LegacyDataName(r) THEN
              [acc EXCEPT !.result = DataContentStep([@ EXCEPT !.dataFileCount = @ + 1], f),
                          !.dataFiles = Append(@, FileInfo(f, << >>, TRUE))]
          ELSE [acc EXCEPT !.result = Report([@ EXCEPT !.dataFileCount = @ + 1],
                                             "unexpectedFiles", f, FLAG_UNEXPECTED_FILES)]
      ELSE IF BeginsWith(fileName, <<"t", "e", "s", "t", "e", "r", "_", "f", "e", "b", "s", "_">>) /\ arrPos # kNPOS THEN
          IF Len(fileName) >= arrPos + ArrLength + PatternLength THEN
              [acc EXCEPT !.testerFiles =
                  Append(@, FileInfo(f, Sub(fileName, arrPos + ArrLength, PatternLength), FALSE))]
          ELSE [acc EXCEPT !.result = Report(@, "unexpectedFiles", f, FLAG_UNEXPECTED_FILES)]
      ELSE [acc EXCEPT !.result = Report(@, "unexpectedFiles", f, FLAG_UNEXPECTED_FILES)] :
      fileName \in {Name(f)}, arrPos \in {Index(Name(f), <<"_", "a", "r", "r", "_">>, 0)} })

\* The loop over the entries, in listing order: the first half of the
\* listing, then the second half from the result of the first.
RECURSIVE LogFileLoop(_, _, _)
LogFileLoop(r, acc, files) ==
    IF Len(files) = 0 THEN acc
    ELSE IF Len(files) = 1 THEN LogFileStep(r, acc, files[1])
    ELSE Sole({ LogFileLoop(r, next, SubSeq(files, Len(files) \div 2 + 1, Len(files))) :
                  next \in {LogFileLoop(r, acc, SubSeq(files, 1, Len(files) \div 2))} })

\* std::sort(testerFiles, a.dateTimePattern < b.dateTimePattern).  The
\* order of testers with equal patterns is unspecified: tie = FALSE keeps
\* their discovery order, tie = TRUE reverses it.
RECURSIVE SortTesters(_, _)
SortTesters(testerFiles, tie) ==
    IF Len(testerFiles) = 0 THEN << >>
    ELSE
      LET n == Len(testerFiles)
          before(i, j) ==
              \/ Less(testerFiles[i].dateTimePattern, testerFiles[j].dateTimePattern)
              \/ /\ ~Less(testerFiles[j].dateTimePattern, testerFiles[i].dateTimePattern)
                 /\ IF tie THEN i > j ELSE i < j
          first == CHOOSE i \in 1..n : \A j \in (1..n) \ {i} : before(i, j)
      IN  <<testerFiles[first]>> \o
          SortTesters(SubSeq(testerFiles, 1, first - 1) \o SubSeq(testerFiles, first + 1, n), tie)

\* A variant of FindTester that gives a data file without a timestamp the
\* last unmatched tester instead of the first.
FindTesterNewest(dataFile, testerFiles, matchedTesters) ==
    LET hits == { i \in 1..Len(testerFiles) :
                    /\ i \notin matchedTesters
                    /\ \/ dataFile.isSpecialCase
                       \/ dataFile.dateTimePattern = testerFiles[i].dateTimePattern }
    IN  IF hits = {} THEN 0
        ELSE IF dataFile.isSpecialCase THEN CHOOSE i \in hits : \A j \in hits : i >= j
        ELSE CHOOSE i \in hits : \A j \in hits : i <= j

\* A variant of FindTester that does not look at matchedTesters (C3 is
\* tested against it).
FindTesterAnyTester(dataFile, testerFiles, matchedTesters) ==
    LET hits == { i \in 1..Len(testerFiles) :
                    \/ dataFile.isSpecialCase
                    \/ dataFile.dateTimePattern = testerFiles[i].dateTimePattern }
    IN  IF hits = {} THEN 0 ELSE CHOOSE i \in hits : \A j \in hits : i <= j

\* The first index i with !matchedTesters[i] (and, for a data file with a
\* timestamp, the same dateTimePattern); 0 when the scan finds none.
FindTester(dataFile, testerFiles, matchedTesters) ==
    LET ok(i) == /\ i \notin matchedTesters
                 /\ \/ dataFile.isSpecialCase
                    \/ dataFile.dateTimePattern = testerFiles[i].dateTimePattern
        hits == { i \in 1..Len(testerFiles) : ok(i) }
    IN  IF hits = {} THEN 0 ELSE CHOOSE i \in hits : \A j \in hits : i <= j

\* The matching loop over dataFiles, in discovery order.  m holds
\* matchedTesters (the set of matched indices), the pairs reported on
\* std::cerr and whether some data file found no tester.
RECURSIVE MatchLoop(_, _, _)
MatchLoop(dataFiles, testerFiles, m) ==
    IF Len(dataFiles) = 0 THEN m
    ELSE
      Sole({ MatchLoop(rest, testerFiles,
                       IF i # 0
                       THEN [m EXCEPT !.matchedTesters = @ \cup {i},
                                      !.pairs = Append(@, <<dataFile.file, testerFiles[i].file>>)]
                       ELSE [m EXCEPT !.pairs = Append(@, <<dataFile.file, NoFile>>),
                                      !.noMatch = TRUE]) :
             dataFile \in {Head(dataFiles)}, rest \in {Tail(dataFiles)},
             i \in {FindTester(Head(dataFiles), testerFiles, m.matchedTesters)} })

\* A variant of NoTesterFlag that raises the flag for an empty tester list
\* only (C6 is tested against it).
NoTesterFlagEmptyList(m, dataFiles, testerFiles) ==
    Len(dataFiles) > 0 /\ Len(testerFiles) = 0

\* result.flags |= FLAG_NO_FEB_FILE: a data file found no tester in the
\* matching loop, or there are data files and no tester file at all.
NoTesterFlag(m, dataFiles, testerFiles) ==
    m.noMatch \/ (Len(dataFiles) > 0 /\ Len(testerFiles) = 0)

\* The data-tester matching on the sorted testers.
LogMatching(dataFiles, sorted) ==
    MatchLoop(dataFiles, sorted, [matchedTesters |-> {}, pairs |-> << >>, noMatch |-> FALSE])

\* gSystem->AccessPathName(fullTargetPath, kFileExists) == 0
RunDirExists(r, tree) == <<r, "cwd", "rundir", 0, 0>> \in tree

\* The log file check that precedes the directory traversal.
LogFileCheck(r, tree) ==
    IF Exists(r, "log", LogFileName(r), tree)
    THEN LET lf == Entry(r, "log", LogFileName(r), tree)
             r0 == [ValidationResult EXCEPT !.logExists = TRUE]
         IN  IF CanOpen(lf) THEN r0
             ELSE Report(r0, "openErrorFiles", lf, FLAG_FILE_OPEN)
    ELSE [ValidationResult EXCEPT !.flags = OrFlag(@, FLAG_LOG_MISSING)]

\* The file processing loop on the directory listing.
LogScan(r, tree, order) ==
    LogFileLoop(r, [result |-> LogFileCheck(r, tree), dataFiles |-> << >>, testerFiles |-> << >>],
                Listing(r, "log", tree, order))

\* CheckLogFiles with what its matching reports on std::cerr: the result,
\* the pairs <<data file, tester file or NoFile>>, one per well-named data
\* file, and the tester files in their sorted order.
LogOutcome(r, tree, noread, order, tie) ==
    IF ~RunDirExists(r, tree)
    THEN [result |-> [ValidationResult EXCEPT !.flags = OrFlag(@, FLAG_DIR_MISSING)],
          pairs |-> << >>, testers |-> << >>]
    ELSE IF <<r, "log">> \in noread
    THEN [result |-> [LogFileCheck(r, tree) EXCEPT !.flags = OrFlag(@, FLAG_FILE_OPEN)],
          pairs |-> << >>, testers |-> << >>]
    ELSE
      Sole({ Sole({ Sole({ [result |-> IF NoTesterFlag(m, scan.dataFiles, scan.testerFiles)
                                      THEN [scan.result EXCEPT !.flags = OrFlag(@, FLAG_NO_FEB_FILE)]
                                      ELSE scan.result,
                            pairs |-> m.pairs,
                            testers |-> [i \in 1..Len(sorted) |-> sorted[i].file]] :
                           m \in {LogMatching(scan.dataFiles, sorted)} }) :
                    sorted \in {SortTesters(scan.testerFiles, tie)} }) :
             scan \in {LogScan(r, tree, order)} })

CheckLogFiles(r, tree, noread, order, tie) == LogOutcome(r, tree, noread, order, tie).result

\* The orders std::sort may leave equal elements in: with fewer than two
\* entries named tester_febs_* in the run directory there is nothing to
\* order.
TieOrders(r, tree) ==
    IF Cardinality({ f \in tree : /\ f[1] = r /\ f[2] = "log"
                                  /\ BeginsWith(Name(f), <<"t", "e", "s", "t", "e", "r", "_", "f", "e", "b", "s", "_">>) }) > 1
    THEN BOOLEAN ELSE {FALSE}

LogPairs(r, tree, noread, order, tie) == LogOutcome(r, tree, noread, order, tie).pairs

(***************************************************************************)
(* CheckTrimFiles                                                          *)
(***************************************************************************)
ExpectedCount == 8
MaxHwIndex == 7
HwLength == 4

\* The text-file check shared by the electron and hole branches: open, and
\* record the file as empty when tellg() at the end is 0.
TextFileStep(res, f, openFlag) ==
    IF ~CanOpen(f) THEN Report(res, "openErrorFiles", f, openFlag)
    ELSE IF FileSize(f) = 0 THEN [res EXCEPT !.emptyFiles = Append(@, f)]
    ELSE res

\* The HW index that the name of an electron or hole file carries
\* (format *_HW_X_SET_*): -1 when the format is wrong, -2 when X is not a
\* number.
HwIndex(fileName) ==
    Sole({ IF hwPos = -1 \/ setPos = -1 \/ setPos <= hwPos + HwLength THEN -1
           ELSE Sole({ IF \A i \in 1..Len(indexStr) : isdigit(indexStr[i])
                       THEN atoi(indexStr) ELSE -2 :
                       indexStr \in {Sub(fileName, hwPos + HwLength, setPos - (hwPos + HwLength))} }) :
           hwPos \in {Index(fileName, <<"_", "H", "W", "_">>, 0)},
           setPos \in {Index(fileName, <<"_", "S", "E", "T", "_">>,
                             Index(fileName, <<"_", "H", "W", "_">>, 0) + HwLength)} })

\* A variant of TrimRoleStep that takes the HW indices to run from 1 to 8.
TrimRoleStepOneBased(acc, f, role, fileName) ==
    Sole({ IF hwIndex < 1 \/ hwIndex > MaxHwIndex + 1 \/ hwIndex \in acc[role]
           THEN [acc EXCEPT !.result = Report(@, "invalidFiles", f, FLAG_DATA_INVALID)]
           ELSE [acc EXCEPT
                   ![role] = @ \cup {hwIndex},
                   !.result = TextFileStep(IF role = "electron"
                                           THEN [@ EXCEPT !.electronCount = @ + 1]
                                           ELSE [@ EXCEPT !.holeCount = @ + 1],
                                           f, FLAG_FILE_OPEN_TRIM)] :
           hwIndex \in {HwIndex(fileName)} })

\* An electron (role = "electron") or hole file of trim_files; found is
\* the std::set of the HW indices seen for the role.
TrimRoleStep(acc, f, role, fileName) ==
    Sole({ IF hwIndex < 0 \/ hwIndex > MaxHwIndex \/ hwIndex \in acc[role]
           THEN [acc EXCEPT !.result = Report(@, "invalidFiles", f, FLAG_DATA_INVALID)]
           ELSE [acc EXCEPT
                   ![role] = @ \cup {hwIndex},
                   !.result = TextFileStep(IF role = "electron"
                                           THEN [@ EXCEPT !.electronCount = @ + 1]
                                           ELSE [@ EXCEPT !.holeCount = @ + 1],
                                           f, FLAG_FILE_OPEN_TRIM)] :
           hwIndex \in {HwIndex(fileName)} })

TrimFileStep(acc, f) ==
    Sole({ IF IsDirectory(f) THEN acc
           ELSE IF EndsWith(fileName, <<"_", "e", "l", "e", "c", "t", ".", "t", "x", "t">>)
           THEN TrimRoleStep(acc, f, "electron", fileName)
           ELSE IF EndsWith(fileName, <<"_", "h", "o", "l", "e", "s", ".", "t", "x", "t">>)
           THEN TrimRoleStep(acc, f, "hole", fileName)
           ELSE [acc EXCEPT !.result = Report(@, "unexpectedFiles", f, FLAG_UNEXPECTED_FILES_TRIM)] :
           fileName \in {Name(f)} })

\* The loop over the entries, in listing order: the first half of the
\* listing, then the second half from the result of the first.
RECURSIVE TrimFileLoop(_, _)
TrimFileLoop(acc, files) ==
    IF Len(files) = 0 THEN acc
    ELSE IF Len(files) = 1 THEN TrimFileStep(acc, files[1])
    ELSE Sole({ TrimFileLoop(next, SubSeq(files, Len(files) \div 2 + 1, Len(files))) :
                  next \in {TrimFileLoop(acc, SubSeq(files, 1, Len(files) \div 2))} })

\* The final count validation of CheckTrimFiles.
TrimCounts(acc) ==
    [acc.result EXCEPT !.flags =
        Sole({ IF acc.result.holeCount # ExpectedCount \/ Cardinality(acc.hole) # ExpectedCount
               THEN OrFlag(flags, FLAG_HOLE_COUNT_TRIM) ELSE flags :
               flags \in { IF \/ acc.result.electronCount # ExpectedCount
                              \/ Cardinality(acc.electron) # ExpectedCount
                           THEN OrFlag(@, FLAG_ELECTRON_COUNT_TRIM) ELSE @ } })]

CheckTrimFiles(r, tree, noread, order) ==
    IF ~SubdirExists(r, 1, tree)
    THEN [ValidationResult EXCEPT !.flags = OrFlag(@, FLAG_TRIM_FOLDER_MISSING)]
    ELSE IF <<r, "trim">> \in noread
    THEN [ValidationResult EXCEPT !.flags = OrFlag(@, FLAG_DIR_ACCESS_TRIM)]
    ELSE Sole({ TrimCounts(acc) :
                acc \in { TrimFileLoop([result |-> ValidationResult, electron |-> {}, hole |-> {}],
                                       Listing(r, "trim", tree, order)) } })

(***************************************************************************)
(* CheckPscanFiles                                                         *)
(***************************************************************************)
ModuleFile(r, kind) == <<r, "pscan", kind, 0, 0>>

\* The check of the module test ROOT file: it must exist and open.
ModuleRootCheck(r, res, tree) ==
    Sole({ IF ~Exists(r, "pscan", Name(root), tree)
           THEN Report(res, "moduleErrorFiles", root, FLAG_MODULE_ROOT)
           ELSE IF ~CanOpen(Entry(r, "pscan", Name(root), tree))
           THEN Report(res, "moduleErrorFiles", root, FLAG_MODULE_ROOT)
           ELSE res :
           root \in {ModuleFile(r, "module_root")} })

\* The check of the module test text file: it must exist and open; an
\* empty one is recorded.
ModuleTxtCheck(r, res, tree) ==
    Sole({ IF ~Exists(r, "pscan", Name(txt), tree)
           THEN Report(res, "moduleErrorFiles", txt, FLAG_MODULE_TXT)
           ELSE Sole({ IF ~CanOpen(e) THEN Report(res, "moduleErrorFiles", txt, FLAG_MODULE_TXT)
                       ELSE IF FileSize(e) = 0 THEN [res EXCEPT !.emptyFiles = Append(@, e)]
                       ELSE res :
                       e \in {Entry(r, "pscan", Name(txt), tree)} }) :
           txt \in {ModuleFile(r, "module_txt")} })

\* The check of the module test PDF: it must exist.
ModulePdfCheck(r, res, tree) ==
    Sole({ IF ~Exists(r, "pscan", Name(pdf), tree)
           THEN Report(res, "moduleErrorFiles", pdf, FLAG_MODULE_PDF)
           ELSE res :
           pdf \in {ModuleFile(r, "module_pdf")} })

\* The three module test files, checked before the directory is listed.
ModuleFilesCheck(r, tree) ==
    Sole({ ModulePdfCheck(r, r2, tree) :
           r2 \in { Sole({ ModuleTxtCheck(r, r1, tree) :
                           r1 \in {ModuleRootCheck(r, ValidationResult, tree)} }) } })

acceptableAuxFiles ==
    { <<"m", "o", "d", "u", "l", "e", "_", "t", "e", "s", "t", "_", "S", "E", "T", "U", "P", ".", "r", "o", "o", "t">>,
      <<"m", "o", "d", "u", "l", "e", "_", "t", "e", "s", "t", "_", "S", "E", "T", "U", "P", ".", "t", "x", "t">>,
      <<"m", "o", "d", "u", "l", "e", "_", "t", "e", "s", "t", "_", "S", "E", "T", "U", "P", ".", "p", "d", "f">> }

\* TFile::Open of a per-HW ROOT file
RootFileStep(res, f) ==
    IF ~CanOpen(f) THEN Report(res, "openErrorFiles", f, FLAG_FILE_OPEN_PSCAN) ELSE res

PscanFileStep(r, res, f) ==
    Sole({
      IF IsDirectory(f) THEN res
      ELSE IF EndsWith(fileName, <<"_", "e", "l", "e", "c", "t", ".", "t", "x", "t">>)
      THEN TextFileStep([res EXCEPT !.electronTxtCount = @ + 1], f, FLAG_FILE_OPEN_PSCAN)
      ELSE IF EndsWith(fileName, <<"_", "h", "o", "l", "e", "s", ".", "t", "x", "t">>)
      THEN TextFileStep([res EXCEPT !.holeTxtCount = @ + 1], f, FLAG_FILE_OPEN_PSCAN)
      ELSE IF EndsWith(fileName, <<"_", "e", "l", "e", "c", "t", ".", "r", "o", "o", "t">>)
      THEN RootFileStep([res EXCEPT !.electronRootCount = @ + 1], f)
      ELSE IF EndsWith(fileName, <<"_", "h", "o", "l", "e", "s", ".", "r", "o", "o", "t">>)
      THEN RootFileStep([res EXCEPT !.holeRootCount = @ + 1], f)
      ELSE IF \/ /\ BeginsWith(fileName, <<"m", "o", "d", "u", "l", "e", "_", "t", "e", "s", "t", "_">> \o RunName(r))
                 /\ \/ EndsWith(fileName, <<".", "r", "o", "o", "t">>)
                    \/ EndsWith(fileName, <<".", "t", "x", "t">>)
                    \/ EndsWith(fileName, <<".", "p", "d", "f">>)
              \/ fileName \in acceptableAuxFiles
      THEN res
      ELSE Report(res, "unexpectedFiles", f, FLAG_UNEXPECTED_FILES_PSCAN) :
      fileName \in {Name(f)} })

\* The loop over the entries, in listing order: the first half of the
\* listing, then the second half from the result of the first.
RECURSIVE PscanFileLoop(_, _, _)
PscanFileLoop(r, res, files) ==
    IF Len(files) = 0 THEN res
    ELSE IF Len(files) = 1 THEN PscanFileStep(r, res, files[1])
    ELSE Sole({ PscanFileLoop(r, next, SubSeq(files, Len(files) \div 2 + 1, Len(files))) :
                  next \in {PscanFileLoop(r, res, SubSeq(files, 1, Len(files) \div 2))} })

\* A variant of CountFlag that accepts more than 8 files.
CountFlagBelow(flags, count, f) == IF count < ExpectedCount THEN OrFlag(flags, f) ELSE flags

\* flags | f when the count differs from 8
CountFlag(flags, count, f) == IF count # ExpectedCount THEN OrFlag(flags, f) ELSE flags

\* The final count validation of CheckPscanFiles.
PscanCounts(res) ==
    [res EXCEPT !.flags =
        CountFlag(CountFlag(CountFlag(CountFlag(@, res.electronTxtCount, FLAG_ELECTRON_TXT),
                                      res.holeTxtCount, FLAG_HOLE_TXT),
                            res.electronRootCount, FLAG_ELECTRON_ROOT),
                  res.holeRootCount, FLAG_HOLE_ROOT)]

CheckPscanFiles(r, tree, noread, order) ==
    IF ~SubdirExists(r, 2, tree)
    THEN [ValidationResult EXCEPT !.flags = OrFlag(@, FLAG_PSCAN_FOLDER_MISSING)]
    ELSE IF <<r, "pscan">> \in noread
    THEN [ModuleFilesCheck(r, tree) EXCEPT !.flags = OrFlag(@, FLAG_DIR_ACCESS_PSCAN)]
    ELSE Sole({ PscanCounts(res) :
                res \in {PscanFileLoop(r, ModuleFilesCheck(r, tree), Listing(r, "pscan", tree, order))} })

(***************************************************************************)
(* CheckConnFiles                                                          *)
(***************************************************************************)
ConnFileStep(res, f) ==
    Sole({
      IF IsDirectory(f) THEN res
      ELSE IF EndsWith(fileName, <<"_", "e", "l", "e", "c", "t", ".", "t", "x", "t">>)
      THEN TextFileStep([res EXCEPT !.electronCount = @ + 1], f, FLAG_FILE_OPEN_CONN)
      ELSE IF EndsWith(fileName, <<"_", "h", "o", "l", "e", "s", ".", "t", "x", "t">>)
      THEN TextFileStep([res EXCEPT !.holeCount = @ + 1], f, FLAG_FILE_OPEN_CONN)
      ELSE Report(res, "unexpectedFiles", f, FLAG_UNEXPECTED_FILES_CONN) :
      fileName \in {Name(f)} })

\* The loop over the entries, in listing order: the first half of the
\* listing, then the second half from the result of the first.
RECURSIVE ConnFileLoop(_, _)
ConnFileLoop(res, files) ==
    IF Len(files) = 0 THEN res
    ELSE IF Len(files) = 1 THEN ConnFileStep(res, files[1])
    ELSE Sole({ ConnFileLoop(next, SubSeq(files, Len(files) \div 2 + 1, Len(files))) :
                  next \in {ConnFileLoop(res, SubSeq(files, 1, Len(files) \div 2))} })

\* The final count validation of CheckConnFiles.
ConnCounts(res) ==
    [res EXCEPT !.flags = CountFlag(CountFlag(@, res.electronCount, FLAG_ELECTRON_COUNT),
                                    res.holeCount, FLAG_HOLE_COUNT)]

CheckConnFiles(r, tree, noread, order) ==
    IF ~SubdirExists(r, 3, tree)
    THEN [ValidationResult EXCEPT !.flags = OrFlag(@, FLAG_CONN_FOLDER_MISSING)]
    ELSE IF <<r, "conn">> \in noread
    THEN [ValidationResult EXCEPT !.flags = OrFlag(@, FLAG_DIR_ACCESS)]
    ELSE Sole({ ConnCounts(res) :
                res \in {ConnFileLoop(ValidationResult, Listing(r, "conn", tree, order))} })

(***************************************************************************)
(* The verdict of GenerateReportPage                                       *)
(***************************************************************************)
\* A variant of LogCritical without FLAG_NO_FEB_FILE (C1 is tested
\* against it).
LogCriticalWithoutTester ==
    { FLAG_DIR_MISSING, FLAG_LOG_MISSING, FLAG_DATA_MISSING, FLAG_FILE_OPEN, FLAG_DATA_INVALID }

LogCritical ==
    { FLAG_DIR_MISSING, FLAG_LOG_MISSING, FLAG_DATA_MISSING, FLAG_NO_FEB_FILE,
      FLAG_FILE_OPEN, FLAG_DATA_INVALID }
TrimCritical ==
    { FLAG_TRIM_FOLDER_MISSING, FLAG_DIR_ACCESS_TRIM, FLAG_FILE_OPEN_TRIM,
      FLAG_ELECTRON_COUNT_TRIM, FLAG_HOLE_COUNT_TRIM }
PscanCritical ==
    { FLAG_PSCAN_FOLDER_MISSING, FLAG_DIR_ACCESS_PSCAN, FLAG_FILE_OPEN_PSCAN,
      FLAG_ELECTRON_TXT, FLAG_HOLE_TXT, FLAG_ELECTRON_ROOT, FLAG_HOLE_ROOT,
      FLAG_MODULE_ROOT, FLAG_MODULE_TXT, FLAG_MODULE_PDF }
ConnCritical ==
    { FLAG_CONN_FOLDER_MISSING, FLAG_DIR_ACCESS, FLAG_FILE_OPEN_CONN,
      FLAG_ELECTRON_COUNT, FLAG_HOLE_COUNT }
LogCosmetic == { FLAG_DATA_EMPTY, FLAG_UNEXPECTED_FILES }
PscanCosmetic == { FLAG_UNEXPECTED_FILES_PSCAN }

\* dirStatus from the flags of the four results
DirStatus(logFlags, trimFlags, pscanFlags, connFlags) ==
    IF \/ AndMask(logFlags, LogCritical)
       \/ AndMask(trimFlags, TrimCritical)
       \/ AndMask(pscanFlags, PscanCritical)
       \/ AndMask(connFlags, ConnCritical)
    THEN STATUS_FAILED
    ELSE IF \/ AndMask(logFlags, LogCosmetic)
            \/ AndMask(pscanFlags, PscanCosmetic)
    THEN STATUS_PASSED_WITH_ISSUES
    ELSE STATUS_PASSED


(***************************************************************************)
(* FindValidationDirectories                                               *)
(***************************************************************************)
FindValidationDirectories(tree, order) ==
    LET keep(f) ==
            /\ IsDirectory(f)
            /\ ~BeginsWith(Name(f), <<".">>)
            /\ Name(f) \notin { <<"r", "o", "o", "t">>, <<"s", "y", "s">>, <<"e", "t", "c">> }
        dirs == SelectSeq(Listing(0, "cwd", tree, order), keep)
    IN  [i \in 1..Len(dirs) |-> dirs[i][1]]

(***************************************************************************)
(* Extra_Omnes                                                             *)
(***************************************************************************)
\* The keys of testerFileMap: every entry of the listing named
\* tester_febs_*_arr_*, in the order of std::map<TString, bool>.
RECURSIVE SortNames(_)
SortNames(S) ==
    IF S = {} THEN << >>
    ELSE LET f == CHOOSE x \in S : \A y \in S \ {x} : Less(Name(x), Name(y))
         IN  <<f>> \o SortNames(S \ {f})

TesterFileMap(files) ==
    SortNames({ f \in Range(files) :
                  \E fileName \in {Name(f)} :
                     BeginsWith(fileName, <<"t", "e", "s", "t", "e", "r", "_", "f", "e", "b", "s", "_">>) /\ Contains(fileName, <<"_", "a", "r", "r", "_">>) })

\* The first tester of the map, in key order, that is unmatched (and, for
\* a data file with a timestamp, carries its pattern); 0 when none.
FindMapTester(isSpecialCase, dataPattern, testers, matched) ==
    Sole({ IF hits = {} THEN 0 ELSE CHOOSE i \in hits : \A j \in hits : i <= j :
           hits \in {{ i \in 1..Len(testers) :
                        /\ i \notin matched
                        /\ \/ isSpecialCase
                           \/ \E tester \in {Name(testers[i])} :
                              \E arrPos \in {Index(tester, <<"_", "a", "r", "r", "_">>, 0)} :
                                 /\ arrPos # kNPOS
                                 /\ dataPattern = Sub(tester, arrPos + ArrLength, PatternLength) }} })

\* One data file of the matching loop: m holds the matched testers and
\* the pairs <<data file, matched tester or NoFile>>.
PairStep(f, isSpecialCase, dataPattern, testers, m) ==
    Sole({ IF i # 0
           THEN [matched |-> m.matched \cup {i}, pairs |-> Append(m.pairs, <<f, testers[i]>>)]
           ELSE [m EXCEPT !.pairs = Append(@, <<f, NoFile>>)] :
           i \in {FindMapTester(isSpecialCase, dataPattern, testers, m.matched)} })

\* The loop that fills dataTesterPairs.
RECURSIVE PairLoop(_, _, _, _)
PairLoop(r, files, testers, m) ==
    IF Len(files) = 0 THEN m
    ELSE
      Sole({ IF BeginsWith(fileName, RunName(r)) /\ EndsWith(fileName, <<"_", "d", "a", "t", "a", ".", "d", "a", "t">>)
             THEN IF Len(fileName) = StdDataNameLength
                  THEN PairLoop(r, rest, testers,
                                PairStep(f, FALSE, Sub(fileName, PatternStart, PatternLength), testers, m))
                  ELSE IF fileName = LegacyDataName(r)
                  THEN PairLoop(r, rest, testers, PairStep(f, TRUE, << >>, testers, m))
                  ELSE PairLoop(r, rest, testers, m)
             ELSE PairLoop(r, rest, testers, m) :
             f \in {Head(files)}, fileName \in {Name(Head(files))}, rest \in {Tail(files)} })

\* dataTesterPairs of run r
DataTesterPairs(r, tree, order) ==
    Sole({ PairLoop(r, files, TesterFileMap(files), [matched |-> {}, pairs |-> << >>]).pairs :
           files \in {Listing(r, "log", tree, order)} })

IsLogName(f) == EndsWith(Name(f), <<".", "l", "o", "g">>)

\* A deletion group: what the prompt lists and, in order, the files that
\* are unlinked when the operator accepts.
Group(kind, name, file, area, files) ==
    [kind |-> kind, name |-> name, file |-> file, area |-> area, files |-> files]

\* The groups of section 1: one per invalid data file that has an entry
\* in dataTesterPairs, log files skipped.
RECURSIVE PairGroups(_, _)
PairGroups(invalidFiles, pairs) ==
    IF Len(invalidFiles) = 0 THEN << >>
    ELSE
      Sole({ IF IsLogName(invalidFile) \/ hits = {} THEN PairGroups(Tail(invalidFiles), pairs)
             ELSE Sole({ <<Group("pair", "INVALID DATA-TESTER PAIR", invalidFile, "log",
                                 IF pair[2] # NoFile THEN <<pair[1], pair[2]>> ELSE <<pair[1]>>)>> :
                         pair \in {pairs[CHOOSE i \in hits : \A j \in hits : i <= j]} })
                  \o PairGroups(Tail(invalidFiles), pairs) :
             invalidFile \in {Head(invalidFiles)},
             hits \in {{ i \in 1..Len(pairs) : Name(pairs[i][1]) = Name(Head(invalidFiles)) }} })

\* A variant of FilterLogFiles that erases nothing (C9 is tested against it).
KeepLogFiles(files) == files

\* category.files with the log files erased (std::remove_if)
FilterLogFiles(files) == SelectSeq(files, LAMBDA f : ~IsLogName(f))

\* The groups of section 2: the five categories, the empty ones skipped.
CategoryGroups(logResult, pscanResult) ==
    LET categories ==
            << Group("category", "Empty log data files", NoFile, "log", logResult.emptyFiles),
               Group("category", "Unexpected files in log directory", NoFile, "log", logResult.unexpectedFiles),
               Group("category", "Empty pscan files", NoFile, "pscan", pscanResult.emptyFiles),
               Group("category", "Module test file errors", NoFile, "pscan", pscanResult.moduleErrorFiles),
               Group("category", "Unexpected files in pscan directory", NoFile, "pscan", pscanResult.unexpectedFiles) >>
        filtered == [i \in 1..Len(categories) |->
                        [categories[i] EXCEPT !.files = FilterLogFiles(@)]]
    IN  SelectSeq(filtered, LAMBDA c : Len(c.files) > 0)

\* processProtectedFiles: the files of the list that are no log file and
\* do not end in _elect.txt or _holes.txt; no group when there is none.
ProtectedGroup(files, area, categoryName) ==
    LET validFormat(f) ==
            EndsWith(Name(f), <<"_", "e", "l", "e", "c", "t", ".", "t", "x", "t">>) \/ EndsWith(Name(f), <<"_", "h", "o", "l", "e", "s", ".", "t", "x", "t">>)
        invalidFormatFiles == SelectSeq(files, LAMBDA f : ~IsLogName(f) /\ ~validFormat(f))
    IN  IF Len(invalidFormatFiles) = 0 THEN << >>
        ELSE <<Group("protected", categoryName, NoFile, area, invalidFormatFiles)>>

\* TSystem::Unlink(path): 0 when the file was removed, -1 otherwise.
Unlink(r, area, f, tree, nowrite) ==
    IF Exists(r, area, Name(f), tree) /\ <<r, area>> \notin nowrite THEN 0 ELSE -1

\* The deletion loop of an accepted group; st holds the tree and the
\* deletedFiles and failedDeletions vectors.
RECURSIVE UnlinkAll(_, _, _, _, _)
UnlinkAll(r, area, files, st, nowrite) ==
    IF Len(files) = 0 THEN st
    ELSE
      Sole({ UnlinkAll(r, area, Tail(files),
                       IF rc = 0
                       THEN [st EXCEPT !.tree = @ \ {Entry(r, area, Name(f), @)},
                                       !.failedDeletions = Append(@, f)]
                       ELSE [st EXCEPT !.deletedFiles = Append(@, f)],
                       nowrite) :
             f \in {Head(files)},
             rc \in {Unlink(r, area, Head(files), st.tree, nowrite)} })

\* What the operator may type at a prompt ("EOF": the input has ended).
Inputs == {"y", "Y", "n", "yes", "", "EOF"}

\* std::getline(std::cin, response)
Response(input) == IF input = "EOF" THEN "" ELSE input

\* A variant of Accepted that also takes the word yes (C10 is tested
\* against it).
AcceptedYes(response) == response \in {"y", "Y", "yes"}

\* A variant of Accepted that takes every non-empty line (C12 is tested
\* against it).
AcceptedNonEmpty(response) == response # ""

Accepted(response) == response = "y" \/ response = "Y"


(***************************************************************************)
(* State                                                                   *)
(***************************************************************************)
VARIABLES
    tree,            \* the files and directories under the working directory
    noread,          \* <<run, area>>: the directory cannot be listed
    nowrite,         \* <<run, area>>: no file of the directory can be removed
    order,           \* the order in which each directory returns its entries
    pc,              \* where Exorcism() stands
    directories,     \* the runs found by FindValidationDirectories
    dirIdx,          \* the position of the running loop in directories
    gState,          \* reportPages and the three counters
    beforeReport,    \* gState as saved in the pre-cleanup reports
    cl,              \* Extra_Omnes: the results and groups of the current run
    deletedFiles,    \* Extra_Omnes: "successfully deleted files"
    failedDeletions, \* Extra_Omnes: "failed to delete"
    confirmed,       \* the operator has answered y or Y to some prompt
    dataFile,        \* a data file and what CheckDataFileContent returned for it
    vflags,          \* verdict table: the flags of the four outcomes
    vstatus          \* verdict table: the verdict for vflags

vars == << tree, noread, nowrite, order, pc, directories, dirIdx, gState, beforeReport,
           cl, deletedFiles, failedDeletions, confirmed, dataFile, vflags, vstatus >>

fsVars == << noread, nowrite, order >>
tableVars == << vflags, vstatus >>

NoDataFile == [isOpen |-> FALSE, lines |-> << >>, checked |-> FALSE, valid |-> FALSE]

GlobalState == [reportPages |-> << >>, passedDirs |-> 0, passedWithIssuesDirs |-> 0, failedDirs |-> 0]

NoCleanup ==
    [run |-> 0, logResult |-> ValidationResult, trimResult |-> ValidationResult,
     pscanResult |-> ValidationResult, connResult |-> ValidationResult,
     matching |-> << >>, pairs |-> << >>, groups |-> << >>, answers |-> << >>, next |-> 1]

RECURSIVE SubsetsUpTo(_, _)
SubsetsUpTo(S, k) ==
    IF k = 0 THEN {{}}
    ELSE LET prev == SubsetsUpTo(S, k - 1)
         IN  prev \cup { p \cup {x} : p \in prev, x \in S }

\* The run trees of the model: the complete tree with up to MaxAnomalies
\* anomalies.
Scenarios == { as \in SubsetsUpTo(Anomalies, MaxAnomalies) : Compatible(as) }

Init ==
    /\ \E as \in Scenarios :
          /\ tree = TreeOf(as)
          /\ noread = UNION { x.noread : x \in as }
          /\ nowrite = UNION { x.nowrite : x \in as }
    /\ order \in Orders
    /\ pc = "start"
    /\ directories = << >>
    /\ dirIdx = 1
    /\ gState = GlobalState
    /\ beforeReport = GlobalState
    /\ cl = NoCleanup
    /\ deletedFiles = << >>
    /\ failedDeletions = << >>
    /\ confirmed = FALSE
    /\ dataFile = NoDataFile
    /\ vflags = <<0, 0, 0, 0>>
    /\ vstatus = STATUS_PASSED

(***************************************************************************)
(* Exorcism(): directory discovery                                         *)
(***************************************************************************)
Discover ==
    /\ pc = "start"
    /\ directories' = FindValidationDirectories(tree, order)
    /\ pc' = IF Len(directories') = 0 THEN "done" ELSE "pass1"
    /\ UNCHANGED << tree, fsVars, dirIdx, gState, beforeReport, cl,
                    deletedFiles, failedDeletions, confirmed, dataFile, tableVars >>

(***************************************************************************)
(* GenerateReportPage                                                      *)
(***************************************************************************)
\* The page of run r: the four results, the verdict and the matching that
\* CheckLogFiles reported.
\* The page of run r from the results of the four checkers.
PageOf(r, logOutcome, trimResult, pscanResult, connResult) ==
    [ dir |-> r,
      status |-> DirStatus(logOutcome.result.flags, trimResult.flags,
                           pscanResult.flags, connResult.flags),
      logResult |-> logOutcome.result, trimResult |-> trimResult,
      pscanResult |-> pscanResult, connResult |-> connResult,
      matching |-> logOutcome.pairs, testers |-> logOutcome.testers ]

ReportPage(r, tie) ==
    CHOOSE page \in
        { PageOf(r, logOutcome, trimResult, pscanResult, connResult) :
          logOutcome \in {LogOutcome(r, tree, noread, order, tie)},
          trimResult \in {CheckTrimFiles(r, tree, noread, order)},
          pscanResult \in {CheckPscanFiles(r, tree, noread, order)},
          connResult \in {CheckConnFiles(r, tree, noread, order)} } : TRUE

\* A variant of AddPage that does not count the failed runs (C14 is tested
\* against it).
AddPageFailedUncounted(g, page) ==
    LET g1 == [g EXCEPT !.reportPages = Append(@, page)] IN
    CASE page.status = STATUS_PASSED -> [g1 EXCEPT !.passedDirs = @ + 1]
      [] page.status = STATUS_PASSED_WITH_ISSUES -> [g1 EXCEPT !.passedWithIssuesDirs = @ + 1]
      [] OTHER -> g1

\* A variant of AddPage in which the verdict is not computed afresh for
\* each run: once a run of the pass has failed, the pages that follow
\* carry STATUS_FAILED (C13 is tested against it).
AddPageStickyStatus(g, page) ==
    LET p == [page EXCEPT !.status = IF g.failedDirs > 0 THEN STATUS_FAILED ELSE @]
        g1 == [g EXCEPT !.reportPages = Append(@, p)]
    IN
    CASE p.status = STATUS_PASSED -> [g1 EXCEPT !.passedDirs = @ + 1]
      [] p.status = STATUS_PASSED_WITH_ISSUES -> [g1 EXCEPT !.passedWithIssuesDirs = @ + 1]
      [] OTHER -> [g1 EXCEPT !.failedDirs = @ + 1]

\* The update of the global counters and of reportPages.
AddPage(g, page) ==
    LET g1 == [g EXCEPT !.reportPages = Append(@, page)] IN
    CASE page.status = STATUS_PASSED -> [g1 EXCEPT !.passedDirs = @ + 1]
      [] page.status = STATUS_PASSED_WITH_ISSUES -> [g1 EXCEPT !.passedWithIssuesDirs = @ + 1]
      [] OTHER -> [g1 EXCEPT !.failedDirs = @ + 1]

GenerateReportPage ==
    /\ dirIdx <= Len(directories)
    /\ \E trimResult \in {CheckTrimFiles(directories[dirIdx], tree, noread, order)},
          pscanResult \in {CheckPscanFiles(directories[dirIdx], tree, noread, order)},
          connResult \in {CheckConnFiles(directories[dirIdx], tree, noread, order)} :
          \E tie \in TieOrders(directories[dirIdx], tree) :
             \E logOutcome \in {LogOutcome(directories[dirIdx], tree, noread, order, tie)} :
                gState' = AddPage(gState, PageOf(directories[dirIdx], logOutcome, trimResult,
                                                 pscanResult, connResult))
    /\ dirIdx' = dirIdx + 1
    /\ UNCHANGED << tree, fsVars, pc, directories, beforeReport, cl,
                    deletedFiles, failedDeletions, confirmed, dataFile, tableVars >>

\* The loop of the first pass (before the cleanup)
FirstPass == pc = "pass1" /\ GenerateReportPage

\* The loop of the second pass (after the cleanup)
SecondPass == pc = "pass2" /\ GenerateReportPage

\* The pre-cleanup reports are saved and Extra_Omnes is entered.
\* SaveTxtReport, SaveRootReport and SavePdfReport create (or overwrite)
\* the three report files of a pass in the working directory.
ReportFiles(kind) == { <<0, "cwd", kind, n, 0>> : n \in 1..3 }

SaveBeforeReports ==
    /\ pc = "pass1"
    /\ dirIdx > Len(directories)
    /\ beforeReport' = gState
    /\ tree' = tree \cup ReportFiles("report_before")
    /\ pc' = "cleanup"
    /\ dirIdx' = 1
    /\ UNCHANGED << fsVars, directories, gState, cl,
                    deletedFiles, failedDeletions, confirmed, dataFile, tableVars >>

(***************************************************************************)
(* Extra_Omnes, one step per run and per prompt                            *)
(***************************************************************************)
\* The groups of a run, in the order of their prompts.
DeletionGroups(logResult, trimResult, pscanResult, connResult, pairs) ==
    PairGroups(logResult.invalidFiles, pairs)
    \o CategoryGroups(logResult, pscanResult)
    \o ProtectedGroup(trimResult.unexpectedFiles, "trim", "Unexpected files in trim directory")
    \o ProtectedGroup(connResult.unexpectedFiles, "conn", "Unexpected files in connection directory")

\* The head of the loop over the directories: the four validators run and
\* the deletion groups of the run are formed.
CleanupRun ==
    /\ pc = "cleanup"
    /\ cl.run = 0
    /\ \E dirs \in {FindValidationDirectories(tree, order)} :
          /\ dirIdx <= Len(dirs)
          /\ \E trimResult \in {CheckTrimFiles(dirs[dirIdx], tree, noread, order)},
                pscanResult \in {CheckPscanFiles(dirs[dirIdx], tree, noread, order)},
                connResult \in {CheckConnFiles(dirs[dirIdx], tree, noread, order)} :
              \E tie \in TieOrders(dirs[dirIdx], tree) :
              \E logOutcome \in {LogOutcome(dirs[dirIdx], tree, noread, order, tie)} :
              \E pairs \in { IF /\ logOutcome.result.dataFileCount > 0
                                 /\ <<dirs[dirIdx], "log">> \notin noread
                              THEN DataTesterPairs(dirs[dirIdx], tree, order) ELSE << >> } :
                 cl' = [ run |-> dirs[dirIdx],
                         logResult |-> logOutcome.result, trimResult |-> trimResult,
                         pscanResult |-> pscanResult, connResult |-> connResult,
                         matching |-> logOutcome.pairs,
                         pairs |-> pairs,
                         groups |-> DeletionGroups(logOutcome.result, trimResult, pscanResult,
                                                   connResult, pairs),
                         answers |-> << >>,
                         next |-> 1 ]
    /\ UNCHANGED << tree, fsVars, pc, directories, dirIdx, gState, beforeReport,
                    deletedFiles, failedDeletions, confirmed, dataFile, tableVars >>

\* One confirmation prompt: the group is listed, a line is read, and the
\* files of the group are unlinked when the line is "y" or "Y".
Prompt ==
    /\ \E input \in Inputs :
          \E group \in {cl.groups[cl.next]}, response \in {Response(input)} :
          \E st \in { IF Accepted(response)
                       THEN UnlinkAll(cl.run, group.area, group.files,
                                      [tree |-> tree, deletedFiles |-> deletedFiles,
                                       failedDeletions |-> failedDeletions], nowrite)
                       ELSE [tree |-> tree, deletedFiles |-> deletedFiles,
                             failedDeletions |-> failedDeletions] } :
              /\ tree' = st.tree
              /\ deletedFiles' = st.deletedFiles
              /\ failedDeletions' = st.failedDeletions
              /\ cl' = [cl EXCEPT !.answers = Append(@, response), !.next = @ + 1]
              /\ confirmed' = (confirmed \/ input \in {"y", "Y"})
    /\ UNCHANGED << fsVars, pc, directories, dirIdx, gState, beforeReport, dataFile, tableVars >>

\* The next group of the run is of the given kind.
NextGroupIs(kind) ==
    /\ pc = "cleanup"
    /\ cl.run # 0
    /\ cl.next <= Len(cl.groups)
    /\ cl.groups[cl.next].kind = kind

\* Section 1: an invalid data file and its tester
PromptPair == NextGroupIs("pair") /\ Prompt

\* Section 2: a category of problematic files
PromptCategory == NextGroupIs("category") /\ Prompt

\* Section 3: processProtectedFiles
PromptProtected == NextGroupIs("protected") /\ Prompt

\* The end of the loop body: on to the next run.
CleanupNext ==
    /\ pc = "cleanup"
    /\ cl.run # 0
    /\ cl.next > Len(cl.groups)
    /\ cl' = NoCleanup
    /\ dirIdx' = dirIdx + 1
    /\ UNCHANGED << tree, fsVars, pc, directories, gState, beforeReport,
                    deletedFiles, failedDeletions, confirmed, dataFile, tableVars >>

\* Extra_Omnes returns; gState is reset for the second pass.
ResetState ==
    /\ pc = "cleanup"
    /\ cl.run = 0
    /\ dirIdx > Len(FindValidationDirectories(tree, order))
    /\ gState' = GlobalState
    /\ pc' = "pass2"
    /\ dirIdx' = 1
    /\ UNCHANGED << tree, fsVars, directories, beforeReport, cl,
                    deletedFiles, failedDeletions, confirmed, dataFile, tableVars >>

\* The post-cleanup reports are saved and Exorcism() returns.
Finish ==
    /\ pc = "pass2"
    /\ dirIdx > Len(directories)
    /\ tree' = tree \cup ReportFiles("report_after")
    /\ pc' = "done"
    /\ UNCHANGED << fsVars, directories, dirIdx, gState, beforeReport, cl,
                    deletedFiles, failedDeletions, confirmed, dataFile, tableVars >>

Next ==
    \/ Discover
    \/ FirstPass
    \/ SaveBeforeReports
    \/ CleanupRun
    \/ PromptPair
    \/ PromptCategory
    \/ PromptProtected
    \/ CleanupNext
    \/ ResetState
    \/ SecondPass
    \/ Finish

Spec == Init /\ [][Next]_vars

(***************************************************************************)
(* The verdict table: dirStatus of GenerateReportPage for the flags of     *)
(* four results, built one bit at a time.                                  *)
(***************************************************************************)
LogBits == { FLAG_DIR_MISSING, FLAG_LOG_MISSING, FLAG_DATA_MISSING, FLAG_NO_FEB_FILE,
             FLAG_FILE_OPEN, FLAG_DATA_EMPTY, FLAG_DATA_INVALID, FLAG_UNEXPECTED_FILES }
TrimBits == { FLAG_TRIM_FOLDER_MISSING, FLAG_DIR_ACCESS_TRIM, FLAG_ELECTRON_COUNT_TRIM,
              FLAG_HOLE_COUNT_TRIM, FLAG_FILE_OPEN_TRIM, FLAG_UNEXPECTED_FILES_TRIM,
              FLAG_DATA_INVALID }
PscanBits == { FLAG_PSCAN_FOLDER_MISSING, FLAG_DIR_ACCESS_PSCAN, FLAG_ELECTRON_TXT,
               FLAG_HOLE_TXT, FLAG_ELECTRON_ROOT, FLAG_HOLE_ROOT, FLAG_FILE_OPEN_PSCAN,
               FLAG_UNEXPECTED_FILES_PSCAN, FLAG_MODULE_ROOT, FLAG_MODULE_TXT,
               FLAG_MODULE_PDF }
ConnBits == { FLAG_CONN_FOLDER_MISSING, FLAG_DIR_ACCESS, FLAG_ELECTRON_COUNT,
              FLAG_HOLE_COUNT, FLAG_FILE_OPEN_CONN, FLAG_UNEXPECTED_FILES_CONN }

\* The bits that the flags of category c are made of (1 log,
\* 2 trim, 3 pscan, 4 conn).
CategoryBits(c) ==
    CASE c = 1 -> LogBits [] c = 2 -> TrimBits [] c = 3 -> PscanBits [] OTHER -> ConnBits

\* The number of bits set in the four flags.
BitCount(flags) ==
    Cardinality({ <<c, f>> \in UNION { {c} \X CategoryBits(c) : c \in 1..4 } :
                    HasFlag(flags[c], f) })

InitVerdict ==
    /\ tree = BaseTree
    /\ noread = {}
    /\ nowrite = {}
    /\ order = Forward
    /\ pc = "verdict"
    /\ directories = << >>
    /\ dirIdx = 1
    /\ gState = GlobalState
    /\ beforeReport = GlobalState
    /\ cl = NoCleanup
    /\ deletedFiles = << >>
    /\ failedDeletions = << >>
    /\ confirmed = FALSE
    /\ dataFile = NoDataFile
    /\ vflags = <<0, 0, 0, 0>>
    /\ vstatus = DirStatus(0, 0, 0, 0)

\* A checker sets one more bit (result.flags |= f); GenerateReportPage
\* computes dirStatus from the four flags.
SetFlag(c) ==
    /\ pc = "verdict"
    /\ BitCount(vflags) < MaxFlagBits
    /\ \E f \in CategoryBits(c) :
          /\ ~HasFlag(vflags[c], f)
          /\ vflags' = [vflags EXCEPT ![c] = OrFlag(@, f)]
    /\ vstatus' = DirStatus(vflags'[1], vflags'[2], vflags'[3], vflags'[4])
    /\ UNCHANGED << tree, fsVars, pc, directories, dirIdx, gState, beforeReport, cl,
                    deletedFiles, failedDeletions, confirmed, dataFile >>

NextVerdict == \E c \in 1..4 : SetFlag(c)

SpecVerdict == InitVerdict /\ [][NextVerdict]_vars

(***************************************************************************)
(* CheckDataFileContent on the data files of up to MaxLines lines.         *)
(***************************************************************************)
MaxLines == 4

LineSet == { << >>, BlankLine, <<" ">>, TextLine, <<" ", "x">>, Marker, MarkerLine,
             SubSeq(Marker, 1, Len(Marker) - 1) }

RECURSIVE SeqsUpTo(_, _)
SeqsUpTo(S, k) ==
    IF k = 0 THEN { << >> }
    ELSE Sole({ prev \cup { Append(q, x) : q \in prev, x \in S } : prev \in {SeqsUpTo(S, k - 1)} })

InitContent ==
    /\ tree = BaseTree
    /\ noread = {}
    /\ nowrite = {}
    /\ order = Forward
    /\ pc = "content"
    /\ directories = << >>
    /\ dirIdx = 1
    /\ gState = GlobalState
    /\ beforeReport = GlobalState
    /\ cl = NoCleanup
    /\ deletedFiles = << >>
    /\ failedDeletions = << >>
    /\ confirmed = FALSE
    /\ vflags = <<0, 0, 0, 0>>
    /\ vstatus = STATUS_PASSED
    /\ \E isOpen \in BOOLEAN, lines \in SeqsUpTo(LineSet, MaxLines) :
          dataFile = [isOpen |-> isOpen, lines |-> lines, checked |-> FALSE, valid |-> FALSE]

\* One call of CheckDataFileContent.
ReadDataFile ==
    /\ pc = "content"
    /\ ~dataFile.checked
    /\ dataFile' = [dataFile EXCEPT !.checked = TRUE,
                                     !.valid = CheckContent(dataFile.isOpen, dataFile.lines)]
    /\ UNCHANGED << tree, fsVars, pc, directories, dirIdx, gState, beforeReport, cl,
                    deletedFiles, failedDeletions, confirmed, tableVars >>

NextContent == ReadDataFile

SpecContent == InitContent /\ [][NextContent]_vars

(***************************************************************************)
(* The pairing of data and tester files: one run whose directory holds the *)
(* log file and up to MaxLogFiles data and tester files, listed in every   *)
(* order; the first pass and the pairing of Extra_Omnes.                   *)
(***************************************************************************)
\* The legacy data file, the data files of the three timestamps and the
\* three tester files of run r.
LogCandidates(r) ==
    { <<r, "log", "legacy", 0, 0>>, <<r, "log", "data", 1, 0>>, <<r, "log", "data", 2, 0>>,
      <<r, "log", "data", 3, 0>>, <<r, "log", "tester", 1, 0>>, <<r, "log", "tester", 2, 0>>,
      <<r, "log", "tester", 3, 0>> }

InitPairing ==
    /\ \E r \in Runs :
          \E files \in SubsetsUpTo(LogCandidates(r), MaxLogFiles) :
             \E listing \in Perms(files) :
                /\ tree = { <<r, "cwd", "rundir", 0, 0>>, <<r, "log", "logfile", 0, 0>> } \cup files
                /\ order = [Forward EXCEPT ![<<r, "log">>] = <<<<r, "log", "logfile", 0, 0>>>> \o listing]
    /\ noread = {}
    /\ nowrite = {}
    /\ pc = "start"
    /\ directories = << >>
    /\ dirIdx = 1
    /\ gState = GlobalState
    /\ beforeReport = GlobalState
    /\ cl = NoCleanup
    /\ deletedFiles = << >>
    /\ failedDeletions = << >>
    /\ confirmed = FALSE
    /\ dataFile = NoDataFile
    /\ vflags = <<0, 0, 0, 0>>
    /\ vstatus = STATUS_PASSED

\* Exorcism() up to the pairing that Extra_Omnes makes for the run.
NextPairing ==
    \/ Discover
    \/ FirstPass
    \/ SaveBeforeReports
    \/ CleanupRun

SpecPairing == InitPairing /\ [][NextPairing]_vars

(***************************************************************************)
(* Properties                                                              *)
(***************************************************************************)
\* The pages of the running pass.
Pages == Range(gState.reportPages)

\* The flags of the four results of a page: 1 log, 2 trim, 3 pscan, 4 conn.
PageFlags(page) ==
    << page.logResult.flags, page.trimResult.flags,
       page.pscanResult.flags, page.connResult.flags >>

\* Extra_Omnes has asked every prompt of the run it is at.
RunCleanupDone == pc = "cleanup" /\ cl.run # 0 /\ cl.next > Len(cl.groups)

\* The critical flags as the claim C1 lists them, per category: run folder
\* or sub-area folder missing, directory unreadable, file open error, wrong
\* electron/hole count, missing module file, invalid data content, no
\* matching tester.
ListedCritical(c) ==
    CASE c = 1 -> { FLAG_DIR_MISSING, FLAG_FILE_OPEN, FLAG_DATA_INVALID, FLAG_NO_FEB_FILE }
      [] c = 2 -> { FLAG_TRIM_FOLDER_MISSING, FLAG_DIR_ACCESS_TRIM, FLAG_FILE_OPEN_TRIM,
                    FLAG_ELECTRON_COUNT_TRIM, FLAG_HOLE_COUNT_TRIM }
      [] c = 3 -> { FLAG_PSCAN_FOLDER_MISSING, FLAG_DIR_ACCESS_PSCAN, FLAG_FILE_OPEN_PSCAN,
                    FLAG_ELECTRON_TXT, FLAG_HOLE_TXT, FLAG_ELECTRON_ROOT, FLAG_HOLE_ROOT,
                    FLAG_MODULE_ROOT, FLAG_MODULE_TXT, FLAG_MODULE_PDF }
      [] OTHER -> { FLAG_CONN_FOLDER_MISSING, FLAG_DIR_ACCESS, FLAG_FILE_OPEN_CONN,
                    FLAG_ELECTRON_COUNT, FLAG_HOLE_COUNT }

\* The cosmetic flags per category: empty data file, unexpected files.
ListedCosmetic(c) ==
    CASE c = 1 -> { FLAG_DATA_EMPTY, FLAG_UNEXPECTED_FILES }
      [] c = 2 -> { FLAG_UNEXPECTED_FILES_TRIM }
      [] c = 3 -> { FLAG_UNEXPECTED_FILES_PSCAN }
      [] OTHER -> { FLAG_UNEXPECTED_FILES_CONN }

\* C1: whenever one of the four flag words carries a critical flag (folder
\* missing, directory unreadable, open error, wrong electron/hole count,
\* missing module file, invalid data content, no matching tester), the
\* verdict computed from the four words is Failed.
C1_CriticalFlagFails ==
    (\E c \in 1..4 : \E f \in ListedCritical(c) : HasFlag(vflags[c], f))
        => vstatus = STATUS_FAILED

\* C1, its case: a no-matching-tester flag next to a cosmetic flag of
\* another category, and the verdict Failed.
C1_Witness ==
    /\ HasFlag(vflags[1], FLAG_NO_FEB_FILE)
    /\ HasFlag(vflags[3], FLAG_UNEXPECTED_FILES_PSCAN)
    /\ vstatus = STATUS_FAILED

\* C2: a run is Passed exactly when its four flag words are all zero, and a
\* run whose set flags are all cosmetic (empty data file, unexpected files,
\* in any of the four categories), with at least one set, is
\* PassedWithIssues.
C2_PassedIffNoFlag ==
    \A page \in Pages :
       \E flags \in {PageFlags(page)} :
          /\ page.status = STATUS_PASSED <=> (\A c \in 1..4 : flags[c] = 0)
          /\ ( /\ \E c \in 1..4 : flags[c] # 0
               /\ \A c \in 1..4 : \A f \in CategoryBits(c) \ ListedCosmetic(c) :
                     ~HasFlag(flags[c], f) )
             => page.status = STATUS_PASSED_WITH_ISSUES

\* No data file occurs in two pairs and no tester file in two pairs.
OneToOne(pairs) ==
    \A i, j \in DOMAIN pairs :
       i # j => /\ pairs[i][1] # pairs[j][1]
                /\ pairs[i][2] # NoFile => pairs[i][2] # pairs[j][2]

\* C3: the pairing is one-to-one, in the matching of CheckLogFiles and in
\* the pairs of Extra_Omnes: a tester file is paired with at most one data
\* file and a data file with at most one tester file.
C3_PairingOneToOne ==
    /\ \A page \in Pages : OneToOne(page.matching)
    /\ OneToOne(cl.pairs)

\* C3, its case: a validation that matched two data files, while the
\* cleanup of a run has two data files with a tester each.
C3_Witness ==
    /\ \E page \in Pages :
          Cardinality({ i \in DOMAIN page.matching : page.matching[i][2] # NoFile }) >= 2
    /\ Cardinality({ i \in DOMAIN cl.pairs : cl.pairs[i][2] # NoFile }) >= 2

\* C4: exact-timestamp matching comes before any legacy file takes a
\* tester: no legacy data file holds the tester whose timestamp is that of
\* a timestamped data file of the run that is left without a tester.
C4_ExactBeforeLegacy ==
    \A page \in Pages :
       \A i, j \in DOMAIN page.matching :
          \E legacy \in {page.matching[i]}, stamped \in {page.matching[j]} :
             ~ /\ legacy[1][3] = "legacy"
               /\ legacy[2] # NoFile
               /\ stamped[1][3] = "data"
               /\ stamped[2] = NoFile
               /\ TesterStamp(legacy[2][4]) = Stamp(stamped[1][4])

\* The tester files of a page that no data file was paired with.
UnmatchedTesters(page) ==
    Range(page.testers) \ { page.matching[i][2] : i \in DOMAIN page.matching }

\* The pairs of a page whose data file carries a timestamp that no tester
\* file of the run carries.
NoExactTester(page) ==
    { i \in DOMAIN page.matching :
        /\ page.matching[i][1][3] = "data"
        /\ \A t \in Range(page.testers) :
              TesterStamp(t[4]) # Stamp(page.matching[i][1][4]) }

\* C5: a timestamped data file with no tester of its timestamp, in a run
\* where a tester is left unmatched, is paired with a tester and raises
\* no no-matching-tester flag.
C5_NearestTimeFallback ==
    \A page \in Pages :
       \A i \in NoExactTester(page) :
          UnmatchedTesters(page) # {}
             => /\ page.matching[i][2] # NoFile
                /\ ~HasFlag(page.logResult.flags, FLAG_NO_FEB_FILE)

\* The page that the step appends, if it appends one.
NewPages == IF Len(gState'.reportPages) = Len(gState.reportPages) + 1
            THEN {gState'.reportPages[Len(gState'.reportPages)]} ELSE {}

\* C6: CheckLogFiles sets FLAG_NO_FEB_FILE exactly when a well-named data
\* file is left without a tester (data files and no tester file at all
\* included), and unmatched tester files set no flag: the flags are those
\* of the same directory without them.
C6_NoTesterFlagIffUnmatchedData ==
    [][ \A page \in NewPages :
           /\ HasFlag(page.logResult.flags, FLAG_NO_FEB_FILE)
                 <=> (\E i \in DOMAIN page.matching : page.matching[i][2] = NoFile)
           /\ \A tie \in BOOLEAN :
                 CheckLogFiles(page.dir, tree \ UnmatchedTesters(page), noread, order, tie).flags
                    = page.logResult.flags ]_vars

\* C6, its case: a page with a tester file that no data file was paired
\* with, every data file paired, and no flag in the log result.
C6_Witness ==
    \E page \in Pages :
       /\ UnmatchedTesters(page) # {}
       /\ Len(page.matching) > 0
       /\ page.logResult.flags = 0

\* C7: an invalid data file and its paired tester are deleted together or
\* not at all: at the end of the run's cleanup both files of an accepted
\* pair are gone (when the directory lets files be removed) and both files
\* of a declined pair are present, whatever the other answers were.
C7_PairAtomic ==
    RunCleanupDone =>
       \A k \in DOMAIN cl.groups :
          \E group \in {cl.groups[k]} :
             (group.kind = "pair" /\ Len(group.files) = 2) =>
                IF cl.answers[k] \in {"y", "Y"}
                THEN <<cl.run, "log">> \notin nowrite
                        => \A f \in Range(group.files) : f \notin tree
                ELSE \A f \in Range(group.files) : f \in tree

\* C8: for every data file, the tester that the cleanup associates with it
\* is the tester that validation paired it with on the same directory.
C8_CleanupPairsAsValidation ==
    cl.run # 0 =>
       \A i \in DOMAIN cl.pairs :
          \E j \in DOMAIN cl.matching : cl.matching[j] = cl.pairs[i]

OfferedLists ==
    { << "log", "Empty log data files", cl.logResult.emptyFiles >>,
      << "log", "Unexpected files in log directory", cl.logResult.unexpectedFiles >>,
      << "pscan", "Empty pscan files", cl.pscanResult.emptyFiles >>,
      << "pscan", "Module test file errors", cl.pscanResult.moduleErrorFiles >>,
      << "pscan", "Unexpected files in pscan directory", cl.pscanResult.unexpectedFiles >>,
      << "trim", "Unexpected files in trim directory", cl.trimResult.unexpectedFiles >>,
      << "conn", "Unexpected files in connection directory", cl.connResult.unexpectedFiles >> }

\* C10: a step removes files only when it is a prompt answered y or Y, and
\* then only files of the group the prompt listed; and there is exactly one
\* prompt per non-empty group: every answer belongs to one group, no group
\* is empty or occurs twice, every invalid data file and every non-empty
\* offered list has its group, and at the end every group has its answer.
C10_DeleteOnlyAfterYes ==
    [][ /\ tree \ tree' # {} =>
              /\ pc = "cleanup" /\ cl.run # 0 /\ cl.next <= Len(cl.groups)
              /\ cl'.next = cl.next + 1
              /\ cl'.answers[cl.next] \in {"y", "Y"}
              /\ tree' \subseteq tree
              /\ tree \ tree' \subseteq Range(cl.groups[cl.next].files)
        /\ Len(cl'.answers) = cl'.next - 1
        /\ Len(cl'.answers) <= Len(cl'.groups)
        /\ \A i, j \in DOMAIN cl'.groups :
              /\ Len(cl'.groups[i].files) > 0
              /\ i # j => cl'.groups[i] # cl'.groups[j]
        /\ cl'.run # 0 =>
              /\ \A f \in Range(cl'.logResult.invalidFiles) :
                    Cardinality({ k \in DOMAIN cl'.groups :
                                    cl'.groups[k].kind = "pair" /\ cl'.groups[k].file = f }) = 1
              /\ \A list \in OfferedLists' :
                    \E files \in {SelectSeq(list[3], LAMBDA f : ~EndsWith(Name(f), <<".", "l", "o", "g">>))} :
                       Cardinality({ k \in DOMAIN cl'.groups :
                                       /\ cl'.groups[k].kind # "pair"
                                       /\ cl'.groups[k].area = list[1]
                                       /\ cl'.groups[k].name = list[2]
                                       /\ cl'.groups[k].files = files })
                          = IF Len(files) > 0 THEN 1 ELSE 0
        /\ (cl.run # 0 /\ cl'.run = 0) => Len(cl.answers) = Len(cl.groups) ]_vars

\* C10, its case: the cleanup of a run has asked two prompts; after the
\* answer yes a file of that group is still there, after the answer y a
\* file of that group is gone.
C10_Witness ==
    /\ RunCleanupDone
    /\ \E i, j \in DOMAIN cl.groups :
          /\ cl.answers[i] = "yes"
          /\ \E f \in Range(cl.groups[i].files) : f \in tree
          /\ cl.answers[j] = "y"
          /\ \E f \in Range(cl.groups[j].files) : f \notin tree

\* The files that the validation of the run under cleanup put in a list of
\* offending files.
OffendingFiles ==
    UNION { Range(res.invalidFiles) \cup Range(res.emptyFiles) \cup
            Range(res.unexpectedFiles) \cup Range(res.moduleErrorFiles) :
            res \in {cl.logResult, cl.trimResult, cl.pscanResult, cl.connResult} }

\* The testers that the validation of the run under cleanup, or the
\* cleanup itself, paired with an invalid data file.
InvalidDataTesters ==
    { pair[2] : pair \in { q \in Range(cl.matching) \cup Range(cl.pairs) :
                             q[1] \in Range(cl.logResult.invalidFiles) } }

\* The data files that the validation of the run under cleanup found valid,
\* and the testers it paired with them.
ValidDataAndTesters ==
    UNION { {pair[1], pair[2]} :
            pair \in { q \in Range(cl.matching) :
                         q[1] \notin Range(cl.logResult.invalidFiles) \cup
                                     Range(cl.logResult.emptyFiles) \cup
                                     Range(cl.logResult.openErrorFiles) } }

\* C11: every file the cleanup unlinks is, in the validation result of its
\* run, in a list of offending files (invalid, empty, unexpected, module
\* error) or is the tester paired with an invalid data file; a valid data
\* file or the tester validation paired with it is never unlinked, and no
\* step of the cleanup adds a file: the only files ever created are the
\* reports, in the working directory, outside the cleanup.
C11_OnlyOffendingUnlinked ==
    [][ /\ \A f \in tree' \ tree : pc # "cleanup" /\ f[1] = 0 /\ f[2] = "cwd"
        /\ \A f \in tree \ tree' :
              /\ f \in OffendingFiles \cup InvalidDataTesters
              /\ f \notin ValidDataAndTesters ]_vars

\* What a report page says of its run: the verdict and, for each of the
\* four results, the flags and the file lists.
PageOutcome(page) ==
    << page.dir, page.status, page.logResult, page.trimResult, page.pscanResult, page.connResult >>

\* The counters of a pass.
Counters(g) == << g.passedDirs, g.passedWithIssuesDirs, g.failedDirs >>

\* C12: when the operator has declined every confirmation, the second pass
\* gives every run the flags, file lists and verdict of the first pass,
\* and at its end the counters of the two passes are equal.
C12_DeclineAllSameOutcome ==
    (pc \in {"pass2", "done"} /\ ~confirmed) =>
       /\ \A i \in DOMAIN gState.reportPages :
             PageOutcome(gState.reportPages[i]) = PageOutcome(beforeReport.reportPages[i])
       /\ pc = "done" => Counters(gState) = Counters(beforeReport)

\* C12, its case: both passes are over, the cleanup asked about a run with
\* unexpected files in its log directory, and every answer was a refusal.
C12_Witness ==
    /\ pc = "done"
    /\ ~confirmed
    /\ \E page \in Range(beforeReport.reportPages) :
          /\ Len(page.logResult.unexpectedFiles) > 0
          /\ page.status # STATUS_PASSED
    /\ Len(gState.reportPages) = Len(beforeReport.reportPages)

\* Extra_Omnes has called Unlink for no file: the run trees are as the
\* first pass found them.
NoUnlinkYet == deletedFiles = << >> /\ failedDeletions = << >>

\* The pages of run r in the reports of the first pass.
BeforePages(r) == { page \in Range(beforeReport.reportPages) : page.dir = r }

\* C13: as long as no file has been unlinked, every later run of the
\* validation pipeline gives a run what the first pass gave it: the four
\* checkers as Extra_Omnes calls them again give its flags and file
\* lists, and the page of the run in the second pass has its flags, file
\* lists and verdict; and the verdict is a function of the four flag
\* words: any two pages of the two passes with equal flags carry equal
\* verdicts.
C13_ValidationIdempotent ==
    /\ (pc = "cleanup" /\ cl.run # 0 /\ NoUnlinkYet) =>
          /\ BeforePages(cl.run) # {}
          /\ \A page \in BeforePages(cl.run) :
                /\ cl.logResult = page.logResult
                /\ cl.trimResult = page.trimResult
                /\ cl.pscanResult = page.pscanResult
                /\ cl.connResult = page.connResult
    /\ (pc \in {"pass2", "done"} /\ NoUnlinkYet) =>
          \A i \in DOMAIN gState.reportPages :
             PageOutcome(gState.reportPages[i]) = PageOutcome(beforeReport.reportPages[i])
    /\ \A p, q \in Pages \cup Range(beforeReport.reportPages) :
          PageFlags(p) = PageFlags(q) => p.status = q.status

\* C13, its case: Extra_Omnes has validated again a run with two tester
\* files of one timestamp and a data file of that timestamp, no file has
\* been unlinked, and std::sort left the two testers in another order
\* than in the first pass (the data file has the other tester).
C13_Witness ==
    /\ pc = "cleanup"
    /\ cl.run # 0
    /\ NoUnlinkYet
    /\ \E page \in BeforePages(cl.run) :
          /\ \E i, j \in DOMAIN page.testers :
                /\ i # j
                /\ TesterStamp(page.testers[i][4]) = TesterStamp(page.testers[j][4])
          /\ \E i \in DOMAIN page.matching : page.matching[i][2] # NoFile
          /\ cl.matching # page.matching

\* A pass in progress: one page per run met so far, in the order of the
\* discovered runs, each run counted in exactly one counter.
PassSoFar(g, n) ==
    /\ Len(g.reportPages) = n
    /\ \A i \in 1..n : g.reportPages[i].dir = directories[i]
    /\ g.passedDirs + g.passedWithIssuesDirs + g.failedDirs = n
    /\ g.passedDirs = Cardinality({ i \in 1..n : g.reportPages[i].status = STATUS_PASSED })
    /\ g.failedDirs = Cardinality({ i \in 1..n : g.reportPages[i].status = STATUS_FAILED })

\* Where Exorcism() stands and what the passes have produced there.
PassOrder ==
    /\ pc = "start" => gState = GlobalState /\ beforeReport = GlobalState
    /\ pc = "pass1" =>
          /\ PassSoFar(gState, dirIdx - 1)
          /\ beforeReport = GlobalState
          /\ cl = NoCleanup /\ ~confirmed
          /\ deletedFiles = << >> /\ failedDeletions = << >>
    /\ pc = "cleanup" =>
          /\ PassSoFar(beforeReport, Len(directories))
          /\ gState = beforeReport
    /\ pc = "pass2" =>
          /\ PassSoFar(beforeReport, Len(directories))
          /\ PassSoFar(gState, dirIdx - 1)
          /\ cl = NoCleanup
    /\ (pc = "done" /\ Len(directories) > 0) =>
          /\ PassSoFar(beforeReport, Len(directories))
          /\ PassSoFar(gState, Len(directories))

\* C14: Exorcism() runs a first pass that gives one verdict to each
\* discovered run, then the cleanup over every run, then a second pass
\* over the same runs with the counters restarted from zero; after each
\* pass the three counters add up to the number of discovered runs; files
\* are removed during the cleanup only and created (the reports) at the
\* end of a pass only, and the second pass follows the cleanup whatever
\* the answers and the results of the deletions were.
C14_PassOrder ==
    [][ /\ PassOrder'
        /\ directories' # directories => pc = "start"
        /\ tree \ tree' # {} => pc = "cleanup" /\ pc' = "cleanup"
        /\ tree' \ tree # {} => pc \in {"pass1", "pass2"} /\ dirIdx > Len(directories)
        /\ pc' # pc =>
              \/ pc = "start" /\ pc' = (IF Len(directories') = 0 THEN "done" ELSE "pass1")
              \/ pc = "pass1" /\ pc' = "cleanup" /\ Len(gState.reportPages) = Len(directories)
              \/ /\ pc = "cleanup" /\ pc' = "pass2"
                 /\ cl.run = 0 /\ dirIdx = Len(directories) + 1
                 /\ gState' = GlobalState
              \/ pc = "pass2" /\ pc' = "done" /\ Len(gState.reportPages) = Len(directories) ]_vars

\* C14, its case: both passes are over for two runs, after a cleanup in
\* which an accepted deletion failed.
C14_Witness ==
    /\ pc = "done"
    /\ Len(directories) = 2
    /\ confirmed
    /\ nowrite # {}
    /\ Len(deletedFiles) + Len(failedDeletions) > 0
    /\ Len(gState.reportPages) = 2

\* What a step appends to a list.
Appended(old, new) == Range(SubSeq(new, Len(old) + 1, Len(new)))

\* C15: in an accepted group every file is attempted and recorded in
\* exactly one list: in deletedFiles exactly when its unlink succeeded (the
\* file was there and is gone) and in failedDeletions exactly when it
\* failed.
C15_DeletionRecorded ==
    [][ (cl'.next = cl.next + 1 /\ cl'.answers[cl.next] \in {"y", "Y"}) =>
           \E files \in {Range(cl.groups[cl.next].files)},
              deleted \in {Appended(deletedFiles, deletedFiles')},
              failed \in {Appended(failedDeletions, failedDeletions')} :
              /\ deleted \cup failed = files
              /\ deleted \cap failed = {}
              /\ Len(deletedFiles') + Len(failedDeletions')
                    = Len(deletedFiles) + Len(failedDeletions) + Cardinality(files)
              /\ \A f \in files :
                    /\ f \in deleted <=> (f \in tree /\ f \notin tree')
                    /\ f \in failed <=> (f \in tree') ]_vars

\* The non-directory entries of directory a of run r.
FileEntries(r, a) == SelectSeq(Listing(r, a, tree, order), LAMBDA f : ~IsDirectory(f))

\* The directory a of run r exists and can be listed.
Listed(r, a) ==
    /\ RunDirExists(r, tree)
    /\ <<r, a>> \notin noread
    /\ a # "log" => \E n \in 1..3 : AreaOfSubdir(n) = a /\ SubdirExists(r, n, tree)

\* The entries of a sequence that satisfy a test on their names.
CountNames(files, Test(_)) == Cardinality({ i \in DOMAIN files : Test(Name(files[i])) })

\* The log directory: log file + data files + tester files + unexpected.
LogCategorySum(page) ==
    CountNames(FileEntries(page.dir, "log"), LAMBDA nm : nm = LogFileName(page.dir))
    + page.logResult.dataFileCount + Len(page.testers) + Len(page.logResult.unexpectedFiles)

\* trim_files: electron + hole + invalid-name + unexpected.
TrimCategorySum(page) ==
    page.trimResult.electronCount + page.trimResult.holeCount
    + Len(page.trimResult.invalidFiles) + Len(page.trimResult.unexpectedFiles)

\* pscan_files: the four electron/hole counts + module files + unexpected.
PscanCategorySum(page) ==
    page.pscanResult.electronTxtCount + page.pscanResult.holeTxtCount
    + page.pscanResult.electronRootCount + page.pscanResult.holeRootCount
    + CountNames(FileEntries(page.dir, "pscan"),
                 LAMBDA nm : BeginsWith(nm, <<"m", "o", "d", "u", "l", "e", "_", "t", "e", "s", "t", "_">>))
    + Len(page.pscanResult.unexpectedFiles)

\* conn_check_files: electron + hole + unexpected.
ConnCategorySum(page) ==
    page.connResult.electronCount + page.connResult.holeCount
    + Len(page.connResult.unexpectedFiles)

\* C16: the classification is exhaustive and exclusive: in the run
\* directory and in each sub-directory the category counts and list sizes
\* (log, data, tester, electron, hole, module, invalid-name, unexpected)
\* add up to the number of non-directory entries.
C16_ClassificationExclusive ==
    [][ \A page \in NewPages :
           /\ Listed(page.dir, "log") =>
                 LogCategorySum(page) = Len(FileEntries(page.dir, "log"))
           /\ Listed(page.dir, "trim") =>
                 TrimCategorySum(page) = Len(FileEntries(page.dir, "trim"))
           /\ Listed(page.dir, "pscan") =>
                 PscanCategorySum(page) = Len(FileEntries(page.dir, "pscan"))
           /\ Listed(page.dir, "conn") =>
                 ConnCategorySum(page) = Len(FileEntries(page.dir, "conn")) ]_vars

\* The role of a trim_files entry by the way its name ends.
TrimRole(f) ==
    IF f[3] \in {"elect", "elect2", "elect_nohw", "elect_nan", "elect_big"} THEN "electron"
    ELSE IF f[3] \in {"holes", "holes2"} THEN "hole"
    ELSE "none"

\* The HW index written in the name of a trim_files entry; -1 when the
\* name has none, one that is not a number, or 4294967296 (elect_big),
\* which is outside 0..7 as well.
NamedIndex(f) == IF f[3] \in {"elect", "elect2", "holes", "holes2"} THEN f[4] ELSE -1

\* The entries of a role in listing order, the ones with an index outside
\* 0..7 or with the index of an earlier entry of the role, and the
\* distinct valid indices.
RoleEntries(r, role) == SelectSeq(FileEntries(r, "trim"), LAMBDA f : TrimRole(f) = role)

BadIndexEntries(r, role) ==
    UNION { { files[j] : j \in { i \in DOMAIN files :
                \/ NamedIndex(files[i]) \notin 0..7
                \/ \E k \in 1..(i - 1) : NamedIndex(files[k]) = NamedIndex(files[i]) } } :
            files \in {RoleEntries(r, role)} }

ValidIndices(r, role) == { NamedIndex(f) : f \in Range(RoleEntries(r, role)) } \cap 0..7

\* C17: in CheckTrimFiles an electron or hole file whose HW index is
\* missing, not a number, outside 0..7 or already seen for its role is put
\* in the invalid list and is not counted; the electron count and the hole
\* count are the numbers of distinct valid indices seen and are at most 8.
C17_TrimIndexCounting ==
    [][ \A page \in NewPages : Listed(page.dir, "trim") =>
           /\ Range(page.trimResult.invalidFiles)
                 = BadIndexEntries(page.dir, "electron") \cup BadIndexEntries(page.dir, "hole")
           /\ Len(page.trimResult.invalidFiles)
                 = Cardinality(Range(page.trimResult.invalidFiles))
           /\ page.trimResult.electronCount = Cardinality(ValidIndices(page.dir, "electron"))
           /\ page.trimResult.holeCount = Cardinality(ValidIndices(page.dir, "hole"))
           /\ page.trimResult.electronCount <= 8
           /\ page.trimResult.holeCount <= 8 ]_vars

\* C18: a run whose trim_files directory holds an electron or hole file
\* with a malformed, out-of-range or repeated HW index has the verdict
\* Failed, whatever else the run holds.
C18_TrimNamingErrorFails ==
    [][ \A page \in NewPages :
           ( /\ Listed(page.dir, "trim")
             /\ BadIndexEntries(page.dir, "electron") \cup BadIndexEntries(page.dir, "hole") # {} )
           => page.status = STATUS_FAILED ]_vars

\* The data files of the run directory of r, and what their content is.
DataEntries(r) == { f \in Range(FileEntries(r, "log")) : f[3] \in {"legacy", "data"} }

EmptyData(f) == CanOpen(f) /\ FileSize(f) = 0
ValidData(f) == CanOpen(f) /\ FileSize(f) > 0 /\ CheckDataFileContent(f)
InvalidData(f) == CanOpen(f) /\ FileSize(f) > 0 /\ ~CheckDataFileContent(f)

\* C19: for the data files of a run, FLAG_DATA_EMPTY is set only if every
\* data file present is empty, FLAG_DATA_INVALID only if some non-empty
\* data file is invalid and no data file is valid, and a run with a valid
\* data file has neither flag.
C19_DataCategoryFlags ==
    [][ \A page \in NewPages : Listed(page.dir, "log") =>
           /\ HasFlag(page.logResult.flags, FLAG_DATA_EMPTY)
                 => \A f \in DataEntries(page.dir) : EmptyData(f)
           /\ HasFlag(page.logResult.flags, FLAG_DATA_INVALID)
                 => /\ \E f \in DataEntries(page.dir) : InvalidData(f)
                    /\ \A f \in DataEntries(page.dir) : ~ValidData(f)
           /\ (\E f \in DataEntries(page.dir) : ValidData(f))
                 => /\ ~HasFlag(page.logResult.flags, FLAG_DATA_EMPTY)
                    /\ ~HasFlag(page.logResult.flags, FLAG_DATA_INVALID) ]_vars

\* The lines that contain the marker, and the lines after line m that
\* contain a character other than space and tab.
MarkerLines(lines) ==
    { i \in DOMAIN lines :
        \E k \in 1..Len(lines[i]) :
           /\ k + Len(Marker) - 1 <= Len(lines[i])
           /\ \A j \in 1..Len(Marker) : lines[i][k + j - 1] = Marker[j] }

NonBlankAfter(lines, m) ==
    { i \in (m + 1)..Len(lines) : \E j \in DOMAIN lines[i] : lines[i][j] \notin {" ", "\t"} }

\* C20: CheckDataFileContent returns true for a file it can read exactly
\* when some line contains LV_AFT_CONFIG_P and at least two lines after
\* that line contain a character other than space and tab; without a
\* marker line, or with fewer than two such lines after the first marker
\* line, it returns false.
C20_ContentValidIffMarkerAndTwoLines ==
    dataFile.checked =>
       /\ dataFile.valid <=>
             /\ dataFile.isOpen
             /\ \E m \in MarkerLines(dataFile.lines) :
                   Cardinality(NonBlankAfter(dataFile.lines, m)) >= 2
       /\ ( \/ MarkerLines(dataFile.lines) = {}
            \/ \E m \in MarkerLines(dataFile.lines) :
                  /\ \A n \in MarkerLines(dataFile.lines) : m <= n
                  /\ Cardinality(NonBlankAfter(dataFile.lines, m)) < 2 )
           => ~dataFile.valid

\* A file found valid with a blank line between the marker line and the
\* second of the two lines that count.
C20_Witness ==
    /\ dataFile.checked
    /\ dataFile.valid
    /\ \E m \in MarkerLines(dataFile.lines) :
          \E i \in (m + 1)..(Len(dataFile.lines) - 1) :
             i \notin NonBlankAfter(dataFile.lines, m)

\* The entries of directory a of run r whose names end in suffix.
RoleFiles(r, a, suffix) == CountNames(FileEntries(r, a), LAMBDA nm : EndsWith(nm, suffix))

ElectTxt == <<"_", "e", "l", "e", "c", "t", ".", "t", "x", "t">>
HolesTxt == <<"_", "h", "o", "l", "e", "s", ".", "t", "x", "t">>
ElectRoot == <<"_", "e", "l", "e", "c", "t", ".", "r", "o", "o", "t">>
HolesRoot == <<"_", "h", "o", "l", "e", "s", ".", "r", "o", "o", "t">>

\* A wrong count sets its flag in the result and fails the run.
WrongCountFails(page, res, wrong, flag) ==
    wrong => HasFlag(res.flags, flag) /\ page.status = STATUS_FAILED

\* C21: in trim_files, conn_check_files and pscan_files a role whose count
\* differs from 8 (the count of the checker, and the number of files of
\* the role in the directory: fewer than 8 in trim_files, where only valid
\* distinct indices count, other than 8 elsewhere) has its wrong-count
\* flag set and the run is Failed.
C21_WrongCountFails ==
    [][ \A page \in NewPages :
           /\ Listed(page.dir, "trim") =>
                /\ WrongCountFails(page, page.trimResult,
                      page.trimResult.electronCount # 8 \/ RoleFiles(page.dir, "trim", ElectTxt) < 8,
                      FLAG_ELECTRON_COUNT_TRIM)
                /\ WrongCountFails(page, page.trimResult,
                      page.trimResult.holeCount # 8 \/ RoleFiles(page.dir, "trim", HolesTxt) < 8,
                      FLAG_HOLE_COUNT_TRIM)
           /\ Listed(page.dir, "conn") =>
                /\ WrongCountFails(page, page.connResult,
                      page.connResult.electronCount # 8 \/ RoleFiles(page.dir, "conn", ElectTxt) # 8,
                      FLAG_ELECTRON_COUNT)
                /\ WrongCountFails(page, page.connResult,
                      page.connResult.holeCount # 8 \/ RoleFiles(page.dir, "conn", HolesTxt) # 8,
                      FLAG_HOLE_COUNT)
           /\ Listed(page.dir, "pscan") =>
                /\ WrongCountFails(page, page.pscanResult,
                      page.pscanResult.electronTxtCount # 8 \/ RoleFiles(page.dir, "pscan", ElectTxt) # 8,
                      FLAG_ELECTRON_TXT)
                /\ WrongCountFails(page, page.pscanResult,
                      page.pscanResult.holeTxtCount # 8 \/ RoleFiles(page.dir, "pscan", HolesTxt) # 8,
                      FLAG_HOLE_TXT)
                /\ WrongCountFails(page, page.pscanResult,
                      page.pscanResult.electronRootCount # 8 \/ RoleFiles(page.dir, "pscan", ElectRoot) # 8,
                      FLAG_ELECTRON_ROOT)
                /\ WrongCountFails(page, page.pscanResult,
                      page.pscanResult.holeRootCount # 8 \/ RoleFiles(page.dir, "pscan", HolesRoot) # 8,
                      FLAG_HOLE_ROOT) ]_vars

\* A Failed page whose only flag is the electron count of trim_files, with
\* 7 electron files counted.
C21_Witness ==
    \E page \in Pages :
       /\ page.trimResult.electronCount = 7
       /\ page.trimResult.flags = FLAG_ELECTRON_COUNT_TRIM
       /\ page.logResult.flags = 0 /\ page.pscanResult.flags = 0 /\ page.connResult.flags = 0
       /\ page.status = STATUS_FAILED

\* Directory a of run r holds 8 electron and 8 hole files, all readable
\* and non-empty, and nothing else.
SixteenFiles(r, a) ==
    /\ Listed(r, a)
    /\ Len(FileEntries(r, a)) = 16
    /\ RoleFiles(r, a, ElectTxt) = 8
    /\ RoleFiles(r, a, HolesTxt) = 8
    /\ \A f \in Range(FileEntries(r, a)) : CanOpen(f) /\ FileSize(f) > 0

\* C22: a trim_files directory with exactly 8 readable, non-empty electron
\* files of the HW indices 0..7 and 8 such hole files, and a
\* conn_check_files directory with exactly 8 readable, non-empty electron
\* files and 8 such hole files, have the flags 0.
C22_CleanCategoryNoFlags ==
    [][ \A page \in NewPages :
           /\ ( /\ SixteenFiles(page.dir, "trim")
                /\ ValidIndices(page.dir, "electron") = 0..7
                /\ ValidIndices(page.dir, "hole") = 0..7 )
              => page.trimResult.flags = 0
           /\ SixteenFiles(page.dir, "conn") => page.connResult.flags = 0 ]_vars

\* A Failed page whose trim and conn results count 8 and 8 files and list
\* none: the flags of both are 0 although the run has other faults.
C22_Witness ==
    \E page \in Pages :
       /\ page.status = STATUS_FAILED
       /\ \A res \in {page.trimResult, page.connResult} :
             /\ res.electronCount = 8 /\ res.holeCount = 8
             /\ Len(res.invalidFiles) + Len(res.unexpectedFiles) + Len(res.emptyFiles)
                  + Len(res.openErrorFiles) = 0
             /\ res.flags = 0

\* The data files with a timestamp, the legacy data files and the tester
\* files of the run directory of r; the timestamp in a tester's name.
StampedData(r) == { f \in Range(FileEntries(r, "log")) : f[3] = "data" }
LegacyData(r) == { f \in Range(FileEntries(r, "log")) : f[3] = "legacy" }
TesterEntries(r) == { f \in Range(FileEntries(r, "log")) : f[3] \in {"tester", "logtester"} }
StampOfTester(t) == IF t[3] \in {"tester", "logtester"} THEN TesterStamp(t[4]) ELSE << >>

\* The tester the page pairs with data file d; NoFile when it pairs none.
PairedTester(page, d) ==
    IF \E i \in DOMAIN page.matching : page.matching[i][1] = d
    THEN page.matching[CHOOSE i \in DOMAIN page.matching : page.matching[i][1] = d][2]
    ELSE NoFile

\* C23: in a run without legacy data files where every data file has a
\* tester of its timestamp, every data file is paired with a tester of
\* its timestamp, the other testers stay unmatched, and FLAG_NO_FEB_FILE
\* is not raised.
C23_ExactPairing ==
    [][ \A page \in NewPages :
           ( /\ Listed(page.dir, "log")
             /\ LegacyData(page.dir) = {}
             /\ StampedData(page.dir) # {}
             /\ \A d \in StampedData(page.dir) :
                   \E t \in TesterEntries(page.dir) : StampOfTester(t) = Stamp(d[4]) )
           => /\ \A d \in StampedData(page.dir) :
                    /\ PairedTester(page, d) \in TesterEntries(page.dir)
                    /\ StampOfTester(PairedTester(page, d)) = Stamp(d[4])
              /\ Len(page.matching) = Cardinality(StampedData(page.dir))
              /\ Cardinality(UnmatchedTesters(page))
                   = Cardinality(TesterEntries(page.dir)) - Cardinality(StampedData(page.dir))
              /\ ~HasFlag(page.logResult.flags, FLAG_NO_FEB_FILE) ]_vars

\* The testers still unmatched when the matching loop of the page reaches
\* its pair i.
FreeBefore(page, i) == Range(page.testers) \ { page.matching[j][2] : j \in 1..(i - 1) }

\* YYMMDD_HHMM as a number of minutes, for the timestamps of the testers.
TesterMinutes(t) == IF t[4] = 2 THEN 9 * 60 + 5 ELSE 9 * 60

LogStructural(page) ==
    \/ HasFlag(page.logResult.flags, FLAG_DIR_MISSING)
    \/ <<page.dir, "log">> \in noread
TrimStructural(page) ==
    \/ HasFlag(page.trimResult.flags, FLAG_TRIM_FOLDER_MISSING)
    \/ HasFlag(page.trimResult.flags, FLAG_DIR_ACCESS_TRIM)
PscanStructural(page) ==
    \/ HasFlag(page.pscanResult.flags, FLAG_PSCAN_FOLDER_MISSING)
    \/ HasFlag(page.pscanResult.flags, FLAG_DIR_ACCESS_PSCAN)
ConnStructural(page) ==
    \/ HasFlag(page.connResult.flags, FLAG_CONN_FOLDER_MISSING)
    \/ HasFlag(page.connResult.flags, FLAG_DIR_ACCESS)

\* A run with a structural error is Failed.
StructuralErrorFails ==
    \A page \in Pages :
       (TrimStructural(page) \/ PscanStructural(page) \/ ConnStructural(page)
          \/ HasFlag(page.logResult.flags, FLAG_DIR_MISSING))
       => page.status = STATUS_FAILED

\* C25: after a structural error of a run the remaining checkers are not
\* run for that run (their results stay as constructed) and the run is
\* Failed.
C25_StructuralErrorSkipsRest ==
    [][ \A page \in NewPages :
           /\ LogStructural(page) =>
                 /\ page.trimResult = ValidationResult
                 /\ page.pscanResult = ValidationResult
                 /\ page.connResult = ValidationResult
           /\ TrimStructural(page) =>
                 /\ page.pscanResult = ValidationResult
                 /\ page.connResult = ValidationResult
           /\ PscanStructural(page) => page.connResult = ValidationResult
           /\ (LogStructural(page) \/ TrimStructural(page) \/ PscanStructural(page)
                 \/ ConnStructural(page)) => page.status = STATUS_FAILED ]_vars

DataSuffix == <<"_", "d", "a", "t", "a", ".", "d", "a", "t">>

\* The entries of the run directory of r named <run>..._data.dat.
DataNamed(r) ==
    { f \in Range(FileEntries(r, "log")) :
        BeginsWith(Name(f), RunName(r)) /\ EndsWith(Name(f), DataSuffix) }

\* C26: a run directory that exists and holds no file <run>..._data.dat
\* has FLAG_DATA_MISSING in its log result and the verdict Failed.
C26_NoDataFileFails ==
    [][ \A page \in NewPages :
           (Listed(page.dir, "log") /\ DataNamed(page.dir) = {})
           => /\ HasFlag(page.logResult.flags, FLAG_DATA_MISSING)
              /\ page.status = STATUS_FAILED ]_vars

\* C27: the flags of CheckLogFiles and the verdict of a run do not depend
\* on the order in which the run directory returns its entries: the
\* listing of the same tree in each order of Orders gives the flags and
\* the verdict of the page.
C27_ListingOrderIrrelevant ==
    [][ \A page \in NewPages :
           \A other \in Orders :
              \E tie \in BOOLEAN :
                 \E flags \in {CheckLogFiles(page.dir, tree, noread, other, tie).flags} :
                    /\ flags = page.logResult.flags
                    /\ DirStatus(flags, page.trimResult.flags, page.pscanResult.flags,
                                 page.connResult.flags) = page.status ]_vars

\* C28: when every accepted deletion removes its file, the verdict of a run
\* in the second pass is not more severe than its verdict in the first
\* pass (STATUS_PASSED < STATUS_PASSED_WITH_ISSUES < STATUS_FAILED).
C28_CleanupNeverWorsens ==
    (pc \in {"pass2", "done"} /\ nowrite = {}) =>
       \A i \in DOMAIN gState.reportPages :
          gState.reportPages[i].status <= beforeReport.reportPages[i].status

\* CheckLogFiles takes d for a data file with the timestamp in its name:
\* d is not reported as unexpected, it is in the matching, and a tester
\* paired with it carries that timestamp.
AcceptedStamped(page, d) ==
    /\ d \notin Range(page.logResult.unexpectedFiles)
    /\ \E i \in DOMAIN page.matching : page.matching[i][1] = d
    /\ PairedTester(page, d) # NoFile
         => StampOfTester(PairedTester(page, d)) = Stamp(d[4])

\* C29: for a run name of any length CheckLogFiles and Extra_Omnes take
\* <run>_<YYMMDD_HHMM>_data.dat for a data file with that timestamp and
\* <run>_data.dat for the legacy data file.
C29_AnyRunNameLength ==
    [][ /\ \A page \in NewPages : Listed(page.dir, "log") =>
              /\ \A d \in StampedData(page.dir) : AcceptedStamped(page, d)
              /\ \A d \in LegacyData(page.dir) :
                    /\ d \notin Range(page.logResult.unexpectedFiles)
                    /\ \E i \in DOMAIN page.matching : page.matching[i][1] = d
        /\ (cl.run = 0 /\ cl'.run # 0 /\ Listed(cl'.run, "log")) =>
              \A d \in StampedData(cl'.run) \cup LegacyData(cl'.run) :
                 \E i \in DOMAIN cl'.pairs : cl'.pairs[i][1] = d ]_vars

\* C30: the cleanup unlinks no file whose name ends in .log, in any group,
\* the tester file deleted together with an invalid data file included.
C30_NoLogNameUnlinked ==
    [][ \A f \in tree \ tree' : ~EndsWith(Name(f), <<".", "l", "o", "g">>) ]_vars

=============================================================================
